---------------------------- MODULE Spec2Model ----------------------------
(***************************************************************************)
(* A model of the input-resolution front end of WDL/CLI.py:                *)
(*   runner_exe           target resolution                                *)
(*   runner_input         merging JSON, --empty, --none and name=value     *)
(*   runner_input_value   coercion of one command-line value               *)
(*   validate_input_path  authorisation of File/Directory inputs           *)
(* Text is a sequence of one-character strings, so that find, split and    *)
(* int() are computed the way the program computes them.                   *)
(***************************************************************************)
EXTENDS Integers, Sequences, FiniteSets, TLC

VARIABLES
    pc,               \* position of the running function
    doc,              \* runner_exe / runner_input: the loaded document
    task,             \* the --task argument (PyNone when not given)
    target,           \* the resolved target
    exn,              \* the exception raised, NoExn while none
    input_file,       \* runner_input: the decoded JSON source, a sequence of [key, val]
    empty,            \* the --empty names
    none,             \* the --none names
    cli,              \* the name=value tokens as given
    inputs,           \* the local list `inputs` (reassembled tokens)
    i,                \* index of the loop in progress
    input_env,        \* the environment being built
    json_keys,        \* names bound by the JSON source and not yet overridden
    check_required,   \* the check_required argument
    fs,               \* validate_input_path: what the filesystem holds at the path
    todo,             \* directories os.walk has still to visit
    ret,              \* value returned by validate_input_path
    riv_s_value,      \* runner_input_value: the argument s_value
    riv_ty,           \* runner_input_value: the argument ty
    riv_value,        \* runner_input_value: the Value returned
    strict,           \* check: the --strict option
    show_all,         \* check: the --all option
    suppress,         \* check: the set of suppressed finding classes
    exit_on_severity, \* check: effective_exit_on_severity
    uri,              \* check: the documents to load, lint and outline, in order
    stack,            \* outline: the nodes still to visit, next first
    pending,          \* outline: the sorted findings of the node, still to filter
    out,              \* outline: the findings printed so far
    shown,            \* check: shown[0]
    exit_code_info,   \* check: the dictionary exit_code_info
    exit_code,        \* the exit code of the process, -1 while it runs
    debug,            \* runner: kwargs["debug"]
    raised,           \* runner: what runtime.run raises, outermost layer first
    rundir,           \* runner: the local rundir
    from_rundir,      \* runner: the local from_rundir
    exit_status,      \* runner: the local exit_status
    info,             \* runner: the fields dir and from_dir of the report
    artifacts,        \* the run directories rerun and wdl were written to
    verbose,          \* runner: kwargs["verbose"]
    error_json,       \* runner: the --error-json option
    json_only,        \* runner: the --json option
    setup,            \* runner: what the checks, load and runner_input meet
    trace,            \* runner: what it did that is seen from outside, in order
    no_outside_imports, \* make_read_source: its argument
    top_dir,          \* make_read_source: the local top_dir
    path,             \* read_source: the directories to search for imports
    reads             \* read_source: the calls made, each with how it ended

vars == <<pc, doc, task, target, exn, input_file, empty, none, cli, inputs, i,
          input_env, json_keys, check_required, fs, todo, ret, riv_s_value, riv_ty, riv_value,
          strict, show_all, suppress, exit_on_severity, uri, stack, pending, out,
          shown, exit_code_info, exit_code,
          debug, raised, rundir, from_rundir, exit_status, info, artifacts,
          verbose, error_json, json_only, setup, trace,
          no_outside_imports, top_dir, path, reads>>

valueVars == <<riv_s_value, riv_ty, riv_value>>
checkVars == <<strict, show_all, suppress, exit_on_severity, uri, stack, pending, out,
               shown, exit_code_info, exit_code>>
runVars == <<debug, raised, rundir, from_rundir, exit_status, info, artifacts,
             verbose, error_json, json_only, setup, trace>>
readVars == <<no_outside_imports, top_dir, path, reads>>

(***************************************************************************)
(* Bounds of the model                                                     *)
(***************************************************************************)
MaxTasks == 2      \* tasks per document
MaxTokens == 3     \* name=value tokens per command line
MaxEntries == 2    \* entries per directory of a Directory input

(***************************************************************************)
(* Python values                                                           *)
(***************************************************************************)
PyNone == "#None"
Truthy(s) == s \notin {PyNone, ""}

NoExn == [kind |-> "", msg |-> "", names |-> <<>>]
InputError(m) == [kind |-> "InputError", msg |-> m, names |-> <<>>]
ValueError == [kind |-> "ValueError", msg |-> "invalid literal", names |-> <<>>]
AssertionError == [kind |-> "AssertionError", msg |-> "", names |-> <<>>]

(***************************************************************************)
(* Documents and targets                                                   *)
(***************************************************************************)
NoTarget == [kind |-> "none", name |-> "", available_inputs |-> <<>>]

Range(s) == {s[k] : k \in DOMAIN s}

\* first element of s satisfying Test, as next((... for t in s if ...), dflt)
RECURSIVE FirstWith(_, _, _)
FirstWith(s, nm, dflt) ==
    IF s = <<>> THEN dflt
    ELSE IF Head(s).name = nm THEN Head(s)
    ELSE FirstWith(Tail(s), nm, dflt)

\* mutants of RunnerExe: the first task is preferred to the workflow; the
\* workflow is preferred to the task named
RunnerExeFirstTask(d, task_name) ==
    IF Truthy(task_name)
    THEN LET t == FirstWith(d.tasks, task_name, NoTarget)
         IN  IF t = NoTarget
             THEN [target |-> NoTarget, exn |-> InputError("no such task in document")]
             ELSE [target |-> t, exn |-> NoExn]
    ELSE IF Len(d.tasks) >= 1
    THEN [target |-> d.tasks[1], exn |-> NoExn]
    ELSE IF d.workflow # NoTarget
    THEN [target |-> d.workflow, exn |-> NoExn]
    ELSE [target |-> NoTarget, exn |-> InputError("Empty WDL document")]

RunnerExeWorkflowFirst(d, task_name) ==
    IF d.workflow # NoTarget
    THEN [target |-> d.workflow, exn |-> NoExn]
    ELSE IF Truthy(task_name)
    THEN LET t == FirstWith(d.tasks, task_name, NoTarget)
         IN  IF t = NoTarget
             THEN [target |-> NoTarget, exn |-> InputError("no such task in document")]
             ELSE [target |-> t, exn |-> NoExn]
    ELSE IF Len(d.tasks) = 1
    THEN [target |-> d.tasks[1], exn |-> NoExn]
    ELSE IF Len(d.tasks) > 1
    THEN [target |-> NoTarget, exn |-> InputError("specify --task")]
    ELSE [target |-> NoTarget, exn |-> InputError("Empty WDL document")]

\* runner_exe(doc, task_name): the target, or the exception raised
RunnerExe(d, task_name) ==
    IF Truthy(task_name)
    THEN LET t == FirstWith(d.tasks, task_name, NoTarget)
         IN  IF t = NoTarget
             THEN [target |-> NoTarget, exn |-> InputError("no such task in document")]
             ELSE [target |-> t, exn |-> NoExn]
    ELSE IF d.workflow # NoTarget
    THEN [target |-> d.workflow, exn |-> NoExn]
    ELSE IF Len(d.tasks) = 1
    THEN [target |-> d.tasks[1], exn |-> NoExn]
    ELSE IF Len(d.tasks) > 1
    THEN [target |-> NoTarget, exn |-> InputError("specify --task")]
    ELSE [target |-> NoTarget, exn |-> InputError("Empty WDL document")]


(***************************************************************************)
(* Text: str.find, str.split, str.isalpha, int()                           *)
(***************************************************************************)
Letters == {"a", "b", "c", "d", "e", "f", "g", "h", "i", "j", "k", "l", "m",
            "n", "o", "p", "q", "r", "s", "t", "u", "v", "w", "x", "y", "z"}
Digits == {"0", "1", "2", "3", "4", "5", "6", "7", "8", "9"}

IsAlpha(c) == c \in Letters

DigitVal(c) ==
    CASE c = "0" -> 0 [] c = "1" -> 1 [] c = "2" -> 2 [] c = "3" -> 3
      [] c = "4" -> 4 [] c = "5" -> 5 [] c = "6" -> 6 [] c = "7" -> 7
      [] c = "8" -> 8 [] c = "9" -> 9

\* s.find(c): index from 0 of the first c in s, -1 when there is none
Find(s, c) ==
    IF \E k \in DOMAIN s : s[k] = c
    THEN (CHOOSE k \in DOMAIN s : s[k] = c /\ \A j \in 1..(k - 1) : s[j] # c) - 1
    ELSE -1

\* s.split("=", 1)
Split1(s) ==
    LET at == Find(s, "=")
    IN  IF at = -1 THEN <<s>>
        ELSE <<SubSeq(s, 1, at), SubSeq(s, at + 2, Len(s))>>

\* s.split(".")
RECURSIVE SplitDots(_)
SplitDots(s) ==
    LET at == Find(s, ".")
    IN  IF at = -1 THEN <<s>>
        ELSE <<SubSeq(s, 1, at)>> \o SplitDots(SubSeq(s, at + 2, Len(s)))

\* ".".join(parts)
RECURSIVE JoinDots(_)
JoinDots(parts) ==
    IF parts = <<>> THEN <<>>
    ELSE IF Len(parts) = 1 THEN parts[1]
    ELSE parts[1] \o <<".">> \o JoinDots(Tail(parts))

RECURSIVE DecVal(_)
DecVal(s) == IF s = <<>> THEN 0 ELSE 10 * DecVal(SubSeq(s, 1, Len(s) - 1)) + DigitVal(s[Len(s)])

Unsigned(s) == IF s # <<>> /\ s[1] \in {"-", "+"} THEN Tail(s) ELSE s

\* int(s) succeeds: an optional sign followed by decimal digits
IntOK(s) == Unsigned(s) # <<>> /\ \A k \in DOMAIN Unsigned(s) : Unsigned(s)[k] \in Digits
IntVal(s) == IF s[1] = "-" THEN 0 - DecVal(Unsigned(s)) ELSE DecVal(Unsigned(s))

\* float(s) succeeds: an optional sign, digits with at most one point, a digit somewhere
FloatOK(s) ==
    LET u == Unsigned(s)
    IN  /\ \E k \in DOMAIN u : u[k] \in Digits
        /\ \A k \in DOMAIN u : u[k] \in Digits \cup {"."}
        /\ Cardinality({k \in DOMAIN u : u[k] = "."}) <= 1

(***************************************************************************)
(* Types and values (Type.Base, Value.Base)                                *)
(***************************************************************************)
Ty(tag, opt) == [t |-> tag, optional |-> opt, nonempty |-> FALSE, item |-> ""]
TyArray(itemtag, opt, ne) == [t |-> "Array", optional |-> opt, nonempty |-> ne, item |-> itemtag]
ItemType(ty) == Ty(ty.item, FALSE)
NoType == Ty("", FALSE)

NoValue == [t |-> "", n |-> 0, s |-> <<>>, it |-> "", items |-> <<>>]
VString(s) == [NoValue EXCEPT !.t = "String", !.s = s]
VInt(n) == [NoValue EXCEPT !.t = "Int", !.n = n]
VFloat(s) ==
    LET u == Unsigned(s)
        pt == Find(u, ".")
        whole == IF pt = -1 THEN u ELSE SubSeq(u, 1, pt)
        frac == IF pt = -1 THEN <<>> ELSE SubSeq(u, pt + 2, Len(u))
    IN  [NoValue EXCEPT !.t = "Float",
                        !.n = IF s[1] = "-" THEN 0 - DecVal(whole) ELSE DecVal(whole),
                        !.s = frac]
VBoolean(b) == [NoValue EXCEPT !.t = "Boolean", !.n = IF b THEN 1 ELSE 0]
VNull == [NoValue EXCEPT !.t = "Null"]
VArray(itemtag, items) == [NoValue EXCEPT !.t = "Array", !.it = itemtag, !.items = items]

IsArray(v) == v.t = "Array"

ScalarLike == {"String", "File", "Directory", "Int", "Float"}

(***************************************************************************)
(* runner_input_value                                                      *)
(***************************************************************************)
Ok(v) == [exn |-> NoExn, v |-> v]
Raise(e) == [exn |-> e, v |-> NoValue]

\* Value.Int(int(s_value))
ParseInt(s) == IF IntOK(s) THEN Ok(VInt(IntVal(s))) ELSE Raise(ValueError)

RECURSIVE RunnerInputValue(_, _)
RunnerInputValue(s_value, ty) ==
    CASE ty.t = "String" -> Ok(VString(s_value))
      [] ty.t = "Boolean" ->
            IF s_value = <<"t", "r", "u", "e">> THEN Ok(VBoolean(TRUE))
            ELSE IF s_value = <<"f", "a", "l", "s", "e">> THEN Ok(VBoolean(FALSE))
            ELSE Raise(InputError("Boolean input should be true or false"))
      [] ty.t = "Int" -> ParseInt(s_value)
      [] ty.t = "Float" -> IF FloatOK(s_value) THEN Ok(VFloat(s_value)) ELSE Raise(ValueError)
      [] ty.t = "Array" /\ ty.item \in ScalarLike ->
            LET one == RunnerInputValue(s_value, ItemType(ty))
            IN  IF one.exn # NoExn THEN one ELSE Ok(VArray(ty.item, <<one.v>>))
      [] ty.t = "Any" ->
            IF IntOK(s_value) THEN Ok(VInt(IntVal(s_value)))
            ELSE IF FloatOK(s_value) THEN Ok(VFloat(s_value))
            ELSE Ok(VString(s_value))
      [] OTHER -> Raise(InputError("No command-line support yet for inputs of this type"))

(***************************************************************************)
(* Declarations and environments (Env.Bindings)                            *)
(***************************************************************************)
NoDecl == [name |-> <<>>, type |-> NoType, dflt |-> FALSE]
Decl(nm, ty, dflt) == [name |-> nm, type |-> ty, dflt |-> dflt]

\* available_inputs.get(name)
AvailableGet(available_inputs, name) == FirstWith(available_inputs, name, NoDecl)

NoBinding == [name |-> <<>>, value |-> NoValue]

\* input_env.get(name): the value bound, NoValue (None) when unbound
EnvGet(env, name) == FirstWith(env, name, NoBinding).value
EnvNames(env) == {env[k].name : k \in DOMAIN env}

\* input_env.bind(name, value): the new binding shadows any older one of the name
Bind(env, name, value) ==
    LET Other(b) == b.name # name
    IN  <<[name |-> name, value |-> value]>> \o SelectSeq(env, Other)

\* mutant of Extend: the new items are put in front
ExtendFront(env, name, items) ==
    [k \in DOMAIN env |->
        IF env[k].name = name
        THEN [env[k] EXCEPT !.value.items = items \o @]
        ELSE env[k]]

\* existing.value.extend(items), on the value bound to name
Extend(env, name, items) ==
    [k \in DOMAIN env |->
        IF env[k].name = name
        THEN [env[k] EXCEPT !.value.items = @ \o items]
        ELSE env[k]]

\* target.required_inputs: declared without a default and not optional
RequiredInputs(tgt) ==
    LET Req(d) == ~d.dflt /\ ~d.type.optional
    IN  SelectSeq(tgt.available_inputs, Req)

\* values_from_json: every key names a declared input
RECURSIVE ValuesFromJson(_, _)
ValuesFromJson(input_json, available_inputs) ==
    IF input_json = <<>> THEN [exn |-> NoExn, env |-> <<>>]
    ELSE LET rest == ValuesFromJson(Tail(input_json), available_inputs)
             kv == Head(input_json)
         IN  IF AvailableGet(available_inputs, kv.key) = NoDecl
             THEN [exn |-> InputError("check JSON input; unknown input"), env |-> <<>>]
             ELSE IF rest.exn # NoExn THEN rest
             ELSE [exn |-> NoExn, env |-> Bind(rest.env, kv.key, kv.val)]

\* runner_input_json_file
RunnerInputJsonFile(available_inputs, file) ==
    IF file = <<>> THEN [exn |-> NoExn, env |-> <<>>]
    ELSE ValuesFromJson(file, available_inputs)

(***************************************************************************)
(* runner_input, step by step                                              *)
(***************************************************************************)
Runtime == <<"r", "u", "n", "t", "i", "m", "e">>

\* mutant of SetEmpty: the nonempty quantifier of the array type is not looked at
SetEmptyAnyArray(available_inputs, env, empty_name) ==
    LET decl == AvailableGet(available_inputs, empty_name)
    IN  IF decl = NoDecl
        THEN [exn |-> InputError("No such input"), env |-> env]
        ELSE IF decl.type.t = "Array"
        THEN [exn |-> NoExn, env |-> Bind(env, empty_name, VArray(decl.type.item, <<>>))]
        ELSE IF decl.type.t = "String"
        THEN [exn |-> NoExn, env |-> Bind(env, empty_name, VString(<<>>))]
        ELSE [exn |-> InputError("Cannot set to empty array or string"), env |-> env]

\* set explicitly empty arrays or strings: one iteration of the --empty loop
SetEmpty(available_inputs, env, empty_name) ==
    LET decl == AvailableGet(available_inputs, empty_name)
    IN  IF decl = NoDecl
        THEN [exn |-> InputError("No such input"), env |-> env]
        ELSE IF decl.type.t = "Array"
        THEN IF decl.type.nonempty
             THEN [exn |-> InputError("Cannot set input to empty array"), env |-> env]
             ELSE [exn |-> NoExn, env |-> Bind(env, empty_name, VArray(decl.type.item, <<>>))]
        ELSE IF decl.type.t = "String"
        THEN [exn |-> NoExn, env |-> Bind(env, empty_name, VString(<<>>))]
        ELSE [exn |-> InputError("Cannot set to empty array or string"), env |-> env]

\* mutant of SetNone: the optional quantifier of the type is not looked at
SetNoneAnyType(available_inputs, env, none_name) ==
    LET decl == AvailableGet(available_inputs, none_name)
    IN  IF decl = NoDecl
        THEN [exn |-> InputError("No such input"), env |-> env]
        ELSE [exn |-> NoExn, env |-> Bind(env, none_name, VNull)]

\* set explicitly None values: one iteration of the --none loop
SetNone(available_inputs, env, none_name) ==
    LET decl == AvailableGet(available_inputs, none_name)
    IN  IF decl = NoDecl
        THEN [exn |-> InputError("No such input"), env |-> env]
        ELSE IF ~decl.type.optional
        THEN [exn |-> InputError("Cannot set non-optional input to None"), env |-> env]
        ELSE [exn |-> NoExn, env |-> Bind(env, none_name, VNull)]

\* mutant of Preprocess: the joined token is examined again
RECURSIVE PreprocessAgain(_, _)
PreprocessAgain(inp, k) ==
    IF k > Len(inp) THEN inp
    ELSE LET len_i == Len(inp[k])
         IN  IF len_i > 1 /\ Find(inp[k], "=") = len_i - 1 /\ k + 1 <= Len(inp)
             THEN PreprocessAgain(SubSeq(inp, 1, k - 1) \o <<inp[k] \o inp[k + 1]>>
                                     \o SubSeq(inp, k + 2, Len(inp)), k)
             ELSE PreprocessAgain(inp, k + 1)

\* merge adjacent elements ("x=", "y") into ("x=y"): the while loop from index k
RECURSIVE Preprocess(_, _)
Preprocess(inp, k) ==
    IF k > Len(inp) THEN inp
    ELSE LET len_i == Len(inp[k])
         IN  IF len_i > 1 /\ Find(inp[k], "=") = len_i - 1 /\ k + 1 <= Len(inp)
             THEN Preprocess(SubSeq(inp, 1, k - 1) \o <<inp[k] \o inp[k + 1]>>
                                \o SubSeq(inp, k + 2, Len(inp)), k + 1)
             ELSE Preprocess(inp, k + 1)

\* the name=value token is malformed
InvalidPair(one_input) ==
    LET buf == Split1(one_input)
    IN  one_input = <<>> \/ ~IsAlpha(one_input[1]) \/ Len(buf) # 2 \/ buf[1] = <<>>

\* mutant of RuntimeIdx: the last segment equal to "runtime" is taken
RuntimeIdxLast(nmparts) ==
    IF \E k \in DOMAIN nmparts : nmparts[k] = Runtime
    THEN (CHOOSE k \in DOMAIN nmparts :
              nmparts[k] = Runtime /\ \A j \in (k + 1)..Len(nmparts) : nmparts[j] # Runtime) - 1
    ELSE -1

\* index from 0 of the first segment equal to "runtime", -1 when there is none
RuntimeIdx(nmparts) ==
    IF \E k \in DOMAIN nmparts : nmparts[k] = Runtime
    THEN (CHOOSE k \in DOMAIN nmparts :
              nmparts[k] = Runtime /\ \A j \in 1..(k - 1) : nmparts[j] # Runtime) - 1
    ELSE -1

\* find corresponding input declaration, allowing arbitrary runtime overrides
FindDecl(available_inputs, name) ==
    LET decl == AvailableGet(available_inputs, name)
        nmparts == SplitDots(name)
        runtime_idx == RuntimeIdx(nmparts)
    IN  IF decl # NoDecl THEN decl
        ELSE IF runtime_idx >= 0 /\ Len(nmparts) > runtime_idx + 1
        THEN AvailableGet(available_inputs,
                          JoinDots(SubSeq(nmparts, 1, runtime_idx) \o <<<<"_">> \o Runtime>>))
        ELSE NoDecl

\* mutants of InsertValue: an array from the command line is appended to the
\* JSON array; the JSON value is kept; a repeated non-array input is rebound
InsertValueConcatJson(env, keys, name, v) ==
    LET existing == EnvGet(env, name)
    IN  IF existing # NoValue /\ (name \notin keys \/ (IsArray(v) /\ IsArray(existing)))
        THEN IF IsArray(v)
             THEN IF ~(IsArray(existing) /\ v.it = existing.it)
                  THEN [exn |-> AssertionError, env |-> env, keys |-> keys]
                  ELSE [exn |-> NoExn, env |-> Extend(env, name, v.items), keys |-> keys \ {name}]
             ELSE [exn |-> InputError("non-array input duplicated"), env |-> env, keys |-> keys]
        ELSE [exn |-> NoExn, env |-> Bind(env, name, v), keys |-> keys \ {name}]

InsertValueJsonWins(env, keys, name, v) ==
    LET existing == EnvGet(env, name)
    IN  IF existing # NoValue /\ name \notin keys
        THEN IF IsArray(v)
             THEN IF ~(IsArray(existing) /\ v.it = existing.it)
                  THEN [exn |-> AssertionError, env |-> env, keys |-> keys]
                  ELSE [exn |-> NoExn, env |-> Extend(env, name, v.items), keys |-> keys]
             ELSE [exn |-> InputError("non-array input duplicated"), env |-> env, keys |-> keys]
        ELSE IF existing # NoValue
        THEN [exn |-> NoExn, env |-> env, keys |-> keys]
        ELSE [exn |-> NoExn, env |-> Bind(env, name, v), keys |-> keys \ {name}]

InsertValueLastWins(env, keys, name, v) ==
    LET existing == EnvGet(env, name)
    IN  IF existing # NoValue /\ name \notin keys /\ IsArray(v)
        THEN IF ~(IsArray(existing) /\ v.it = existing.it)
             THEN [exn |-> AssertionError, env |-> env, keys |-> keys]
             ELSE [exn |-> NoExn, env |-> Extend(env, name, v.items), keys |-> keys]
        ELSE [exn |-> NoExn, env |-> Bind(env, name, v), keys |-> keys \ {name}]

\* insert value into input_env
InsertValue(env, keys, name, v) ==
    LET existing == EnvGet(env, name)
    IN  IF existing # NoValue /\ name \notin keys
        THEN IF IsArray(v)
             THEN IF ~(IsArray(existing) /\ v.it = existing.it)
                  THEN [exn |-> AssertionError, env |-> env, keys |-> keys]
                  ELSE [exn |-> NoExn, env |-> Extend(env, name, v.items), keys |-> keys]
             ELSE [exn |-> InputError("non-array input duplicated"), env |-> env, keys |-> keys]
        ELSE [exn |-> NoExn, env |-> Bind(env, name, v), keys |-> keys \ {name}]

\* add in one command-line input: one iteration of the loop over inputs
AddInput(available_inputs, env, keys, one_input) ==
    LET buf == Split1(one_input)
        name == buf[1]
        s_value == buf[2]
        decl == FindDecl(available_inputs, name)
        r == RunnerInputValue(s_value, decl.type)
    IN  IF InvalidPair(one_input)
        THEN [exn |-> InputError("Invalid input name=value pair"), env |-> env, keys |-> keys]
        ELSE IF decl = NoDecl
        THEN [exn |-> InputError("No such input"), env |-> env, keys |-> keys]
        ELSE IF r.exn # NoExn
        THEN [exn |-> r.exn, env |-> env, keys |-> keys]
        ELSE InsertValue(env, keys, name, r.v)

\* mutant of MissingInputs: only the first missing name is reported
MissingInputsFirst(tgt, env) ==
    LET Unbound(d) == d.name \notin EnvNames(env)
        missing == SelectSeq(RequiredInputs(tgt), Unbound)
    IN  IF missing = <<>> THEN <<>> ELSE <<missing[1].name>>

\* target.required_inputs.subtract(input_env): the names, in declaration order
MissingInputs(tgt, env) ==
    LET Unbound(d) == d.name \notin EnvNames(env)
        missing == SelectSeq(RequiredInputs(tgt), Unbound)
    IN  [k \in DOMAIN missing |-> missing[k].name]

\* check for missing inputs
CheckMissing(tgt, env, required) ==
    IF required /\ MissingInputs(tgt, env) # <<>>
    THEN [kind |-> "InputError", msg |-> "missing required inputs",
          names |-> MissingInputs(tgt, env)]
    ELSE NoExn

PcAfterEmpty(n) == IF n # <<>> THEN "none" ELSE "preprocess"
PcAfterJson(e, n) == IF e # <<>> THEN "empty" ELSE PcAfterEmpty(n)

InputFrame ==
    UNCHANGED <<doc, task, input_file, empty, none, cli, check_required, fs, todo, ret, valueVars, checkVars, runVars, readVars>>

RunnerInputStart ==
    /\ pc = "start"
    /\ LET r == RunnerExe(doc, task)
           j == RunnerInputJsonFile(r.target.available_inputs, input_file)
       IN  IF r.exn # NoExn
           THEN /\ pc' = "raised" /\ exn' = r.exn
                /\ UNCHANGED <<target, input_env, json_keys>>
           ELSE IF j.exn # NoExn
           THEN /\ pc' = "raised" /\ exn' = j.exn /\ target' = r.target
                /\ UNCHANGED <<input_env, json_keys>>
           ELSE /\ pc' = PcAfterJson(empty, none) /\ target' = r.target
                /\ input_env' = j.env /\ json_keys' = EnvNames(j.env)
                /\ UNCHANGED exn
    /\ i' = 1
    /\ UNCHANGED inputs
    /\ InputFrame

RunnerInputEmpty ==
    /\ pc = "empty"
    /\ LET r == SetEmpty(target.available_inputs, input_env, empty[i])
       IN  /\ exn' = r.exn
           /\ input_env' = r.env
           /\ pc' = IF r.exn # NoExn THEN "raised"
                    ELSE IF i < Len(empty) THEN "empty" ELSE PcAfterEmpty(none)
           /\ i' = IF r.exn = NoExn /\ i < Len(empty) THEN i + 1 ELSE 1
    /\ UNCHANGED <<target, json_keys, inputs>>
    /\ InputFrame

RunnerInputNone ==
    /\ pc = "none"
    /\ LET r == SetNone(target.available_inputs, input_env, none[i])
       IN  /\ exn' = r.exn
           /\ input_env' = r.env
           /\ pc' = IF r.exn # NoExn THEN "raised"
                    ELSE IF i < Len(none) THEN "none" ELSE "preprocess"
           /\ i' = IF r.exn = NoExn /\ i < Len(none) THEN i + 1 ELSE 1
    /\ UNCHANGED <<target, json_keys, inputs>>
    /\ InputFrame

RunnerInputPreprocess ==
    /\ pc = "preprocess"
    /\ inputs' = Preprocess(cli, 1)
    /\ pc' = IF inputs' # <<>> THEN "cli" ELSE "check"
    /\ i' = 1
    /\ UNCHANGED <<target, exn, input_env, json_keys>>
    /\ InputFrame

RunnerInputAdd ==
    /\ pc = "cli"
    /\ LET r == AddInput(target.available_inputs, input_env, json_keys, inputs[i])
       IN  /\ exn' = r.exn
           /\ input_env' = r.env
           /\ json_keys' = r.keys
           /\ pc' = IF r.exn # NoExn THEN "raised"
                    ELSE IF i < Len(inputs) THEN "cli" ELSE "check"
           /\ i' = IF r.exn = NoExn /\ i < Len(inputs) THEN i + 1 ELSE 1
    /\ UNCHANGED <<target, inputs>>
    /\ InputFrame

RunnerInputCheck ==
    /\ pc = "check"
    /\ exn' = CheckMissing(target, input_env, check_required)
    /\ pc' = IF exn' # NoExn THEN "raised" ELSE "returned"
    /\ UNCHANGED <<target, input_env, json_keys, inputs, i>>
    /\ InputFrame

(***************************************************************************)
(* runner_input as one function: the composition of the steps above        *)
(***************************************************************************)
RECURSIVE EmptyLoop(_, _, _, _)
EmptyLoop(available_inputs, env, names, k) ==
    IF k > Len(names) THEN [exn |-> NoExn, env |-> env]
    ELSE LET r == SetEmpty(available_inputs, env, names[k])
         IN  IF r.exn # NoExn THEN r ELSE EmptyLoop(available_inputs, r.env, names, k + 1)

RECURSIVE NoneLoop(_, _, _, _)
NoneLoop(available_inputs, env, names, k) ==
    IF k > Len(names) THEN [exn |-> NoExn, env |-> env]
    ELSE LET r == SetNone(available_inputs, env, names[k])
         IN  IF r.exn # NoExn THEN r ELSE NoneLoop(available_inputs, r.env, names, k + 1)

RECURSIVE AddLoop(_, _, _, _, _)
AddLoop(available_inputs, env, keys, toks, k) ==
    IF k > Len(toks) THEN [exn |-> NoExn, env |-> env, keys |-> keys]
    ELSE LET r == AddInput(available_inputs, env, keys, toks[k])
         IN  IF r.exn # NoExn THEN r
             ELSE AddLoop(available_inputs, r.env, r.keys, toks, k + 1)

\* the environment before the command-line inputs are added
BeforeCli(tgt, file, empty_names, none_names) ==
    LET j == RunnerInputJsonFile(tgt.available_inputs, file)
        e == EmptyLoop(tgt.available_inputs, j.env, empty_names, 1)
        n == NoneLoop(tgt.available_inputs, e.env, none_names, 1)
    IN  IF j.exn # NoExn THEN j ELSE IF e.exn # NoExn THEN e ELSE n

RunnerInput(d, toks, file, empty_names, none_names, task_name, required) ==
    LET x == RunnerExe(d, task_name)
        b == BeforeCli(x.target, file, empty_names, none_names)
        j == RunnerInputJsonFile(x.target.available_inputs, file)
        c == AddLoop(x.target.available_inputs, b.env, EnvNames(j.env), Preprocess(toks, 1), 1)
        m == CheckMissing(x.target, c.env, required)
    IN  IF x.exn # NoExn THEN [exn |-> x.exn, env |-> <<>>]
        ELSE IF b.exn # NoExn THEN [exn |-> b.exn, env |-> <<>>]
        ELSE IF c.exn # NoExn THEN [exn |-> c.exn, env |-> <<>>]
        ELSE IF m # NoExn THEN [exn |-> m, env |-> <<>>]
        ELSE [exn |-> NoExn, env |-> c.env]

(***************************************************************************)
(* The documents and command lines explored                                *)
(***************************************************************************)
Nx == <<"x">>
Ny == <<"y">>
Na == <<"a">>
Nne == <<"n", "e">>
No == <<"o">>
Noa == <<"o", "a">>
Nzz == <<"z", "z">>
NRuntime == <<"_">> \o Runtime

\* input { Int x  String y  Array[Int] a = []  Array[String]+ ne = ["d"]
\*         Int? o  Array[Int]? oa }, and the synthetic _runtime input
WfInputs ==
    << Decl(Nx, Ty("Int", FALSE), FALSE),
       Decl(Ny, Ty("String", FALSE), FALSE),
       Decl(Na, TyArray("Int", FALSE, FALSE), TRUE),
       Decl(Nne, TyArray("String", FALSE, TRUE), TRUE),
       Decl(No, Ty("Int", TRUE), FALSE),
       Decl(Noa, TyArray("Int", TRUE, FALSE), FALSE),
       Decl(NRuntime, Ty("Any", FALSE), TRUE) >>

Wf == [kind |-> "workflow", name |-> "w", available_inputs |-> WfInputs]
Task(nm) == [kind |-> "task", name |-> nm, available_inputs |-> <<Decl(Nx, Ty("Int", FALSE), FALSE)>>]

KV(k, v) == [key |-> k, val |-> v]

JsonFiles ==
    { <<>>,
      <<KV(Nx, VInt(7))>>,
      <<KV(Na, VArray("Int", <<VInt(5), VInt(6)>>)), KV(Ny, VString(<<"j">>)),
        KV(No, VInt(3))>> }

EmptyArgs == { <<>>, <<Na>>, <<Ny, Noa>>, <<Nne>>, <<Nx>> }
NoneArgs == { <<>>, <<No, Noa>>, <<Nx>> }

Tokens ==
    { <<"x", "=", "1">>, <<"x", "=", "q">>, <<"y", "=", "h">>, <<"y", "=">>,
      <<"a", "=", "1">>, <<"a", "=", "2">> }

SeqsUpTo(S, n) == UNION {[1..k -> S] : k \in 0..n}

\* the dictionary exit_code_info as check creates it
NoExitInfo == [should_exit |-> FALSE, severity |-> PyNone, reason |-> <<>>]

\* check is not running
IdleCheck ==
    /\ strict = FALSE /\ show_all = FALSE /\ suppress = {} /\ exit_on_severity = PyNone
    /\ uri = <<>> /\ stack = <<>> /\ pending = <<>> /\ out = <<>>
    /\ shown = 0 /\ exit_code_info = NoExitInfo /\ exit_code = -1

\* the report of runner with neither dir nor from_dir
NoInfo == [dir |-> PyNone, from_dir |-> PyNone, traceback |-> FALSE]

\* runner is not running
IdleRun ==
    /\ debug = FALSE /\ raised = <<>> /\ rundir = PyNone /\ from_rundir = PyNone
    /\ exit_status = 0 /\ info = NoInfo /\ artifacts = {}
    /\ verbose = FALSE /\ error_json = FALSE /\ json_only = FALSE
    /\ setup = <<>> /\ trace = <<>>

\* no source is being read
IdleRead == no_outside_imports = FALSE /\ top_dir = PyNone /\ path = <<>> /\ reads = <<>>

\* runner_input_value is not being called
IdleValue == riv_s_value = <<>> /\ riv_ty = NoType /\ riv_value = NoValue

Idle ==
    /\ fs = <<>> /\ todo = <<>> /\ ret = ""
    /\ IdleValue
    /\ IdleCheck
    /\ IdleRun
    /\ IdleRead

InitInput ==
    /\ pc = "start"
    /\ doc = [workflow |-> Wf, tasks |-> <<>>]
    /\ task = PyNone
    /\ target = NoTarget
    /\ exn = NoExn
    /\ input_file \in JsonFiles
    /\ empty \in EmptyArgs
    /\ none \in NoneArgs
    /\ cli \in SeqsUpTo(Tokens, MaxTokens)
    /\ inputs = cli
    /\ i = 1
    /\ input_env = <<>>
    /\ json_keys = {}
    /\ check_required \in BOOLEAN
    /\ Idle

NextInput ==
    \/ RunnerInputStart
    \/ RunnerInputEmpty
    \/ RunnerInputNone
    \/ RunnerInputPreprocess
    \/ RunnerInputAdd
    \/ RunnerInputCheck

SpecInput == InitInput /\ [][NextInput]_vars

(***************************************************************************)
(* runner_exe on its own                                                   *)
(***************************************************************************)
TaskNames == {"t1", "t2", "t3"}
TaskArgs == {PyNone, "", "t1", "t2", "zz"}

\* sequences of tasks with distinct names
TaskLists ==
    {s \in SeqsUpTo({Task(nm) : nm \in TaskNames}, MaxTasks) :
        \A j, k \in DOMAIN s : j # k => s[j].name # s[k].name}

InitExe ==
    /\ pc = "exe"
    /\ doc \in [workflow : {NoTarget, Wf}, tasks : TaskLists]
    /\ task \in TaskArgs
    /\ target = NoTarget
    /\ exn = NoExn
    /\ input_file = <<>> /\ empty = <<>> /\ none = <<>> /\ cli = <<>> /\ inputs = <<>>
    /\ i = 1 /\ input_env = <<>> /\ json_keys = {} /\ check_required = TRUE
    /\ Idle

RunnerExeCall ==
    /\ pc = "exe"
    /\ LET r == RunnerExe(doc, task)
       IN  /\ target' = r.target
           /\ exn' = r.exn
           /\ pc' = IF r.exn # NoExn THEN "exe_raised" ELSE "exe_returned"
    /\ UNCHANGED <<doc, task, input_file, empty, none, cli, inputs, i, input_env,
                   json_keys, check_required, fs, todo, ret, valueVars, checkVars, runVars, readVars>>

NextExe == RunnerExeCall

SpecExe == InitExe /\ [][NextExe]_vars

ExeDone == pc \in {"exe_returned", "exe_raised"}
ExplicitTask == Truthy(task)
HasWorkflow == doc.workflow # NoTarget
TaskNamed(nm) == {t \in Range(doc.tasks) : t.name = nm}

\* C8: for a document that declares a workflow and any number of tasks, runner_exe
\* called without a task name returns the workflow (the result is a function of
\* the document and the task name alone).
C8_WorkflowSelected ==
    (ExeDone /\ HasWorkflow /\ ~ExplicitTask) =>
        (pc = "exe_returned" /\ exn = NoExn /\ target = doc.workflow)

C8_Witness ==
    /\ pc = "exe_returned" /\ HasWorkflow /\ task = PyNone
    /\ Len(doc.tasks) = 2 /\ target = doc.workflow

\* C9: runner_exe is total and follows the priority order: a task name given ->
\* the task of exactly that name or InputError, never the workflow; else the
\* workflow; else the only task; else InputError for several tasks; else
\* InputError for an empty document. It returns one target or raises InputError.
C9_PriorityOrder ==
    ExeDone =>
        /\ \/ pc = "exe_returned" /\ exn = NoExn /\ target # NoTarget
           \/ pc = "exe_raised" /\ exn.kind = "InputError" /\ target = NoTarget
        /\ ExplicitTask =>
              IF TaskNamed(task) # {}
              THEN target \in TaskNamed(task) /\ target.kind = "task"
              ELSE exn = InputError("no such task in document")
        /\ (~ExplicitTask /\ HasWorkflow) => target = doc.workflow
        /\ (~ExplicitTask /\ ~HasWorkflow /\ Len(doc.tasks) = 1) => target = doc.tasks[1]
        /\ (~ExplicitTask /\ ~HasWorkflow /\ Len(doc.tasks) > 1) =>
              exn = InputError("specify --task")
        /\ (~ExplicitTask /\ ~HasWorkflow /\ Len(doc.tasks) = 0) =>
              exn = InputError("Empty WDL document")

C9_Witness ==
    /\ pc = "exe_returned" /\ HasWorkflow /\ task = "t2"
    /\ Len(doc.tasks) = 2 /\ target = doc.tasks[2] /\ target.name = "t2"

(***************************************************************************)
(* Claims about runner_input                                               *)
(***************************************************************************)
TokName(tok) == Split1(tok)[1]
TokValue(tok) == Split1(tok)[2]

\* the tokens of the reassembled command line that name n, in order
TokensFor(toks, n) ==
    LET Names(tok) == TokName(tok) = n
    IN  SelectSeq(toks, Names)

DeclOf(n) == FindDecl(Wf.available_inputs, n)
IsArrayName(n) == DeclOf(n).type.t = "Array" /\ DeclOf(n).type.item \in ScalarLike

\* the value the command line gives to n: the coerced token, or for an array
\* input the coerced items of all its tokens in command-line order
CliValue(toks, n) ==
    LET mine == TokensFor(toks, n)
        Item(k) == RunnerInputValue(TokValue(mine[k]), ItemType(DeclOf(n).type)).v
    IN  IF IsArrayName(n)
        THEN VArray(DeclOf(n).type.item, [k \in 1..Len(mine) |-> Item(k)])
        ELSE RunnerInputValue(TokValue(mine[1]), DeclOf(n).type).v

JsonNames == {input_file[k].key : k \in DOMAIN input_file}
JsonValue(n) == (CHOOSE k \in DOMAIN input_file : input_file[k].key = n)
BindingsOf(env, n) == {k \in DOMAIN env : env[k].name = n}
CliNames(toks) == {TokName(toks[k]) : k \in DOMAIN toks}
AsMap(env) == [n \in EnvNames(env) |-> EnvGet(env, n)]
Returned == pc = "returned"

\* C1: a name bound by the JSON source and also given on the command line ends
\* bound to the value coerced from its command-line token(s): the JSON value is
\* replaced, never kept and never concatenated with, also for an array input.
C1_CliReplacesJson ==
    Returned =>
        /\ \A n \in JsonNames :
              TokensFor(inputs, n) # <<>> =>
                  /\ EnvGet(input_env, n) = CliValue(inputs, n)
                  /\ Cardinality(BindingsOf(input_env, n)) = 1
        /\ (Nx \in JsonNames /\ TokensFor(inputs, Nx) = << <<"x", "=", "1">> >>) =>
              EnvGet(input_env, Nx) = VInt(1)
        /\ (Na \in JsonNames /\ TokensFor(inputs, Na) = << <<"a", "=", "2">>, <<"a", "=", "1">> >>) =>
              EnvGet(input_env, Na) = VArray("Int", <<VInt(2), VInt(1)>>)

C1_Witness ==
    /\ Returned
    /\ Na \in JsonNames /\ Len(TokensFor(inputs, Na)) = 2
    /\ EnvGet(input_env, Na) = VArray("Int", <<VInt(2), VInt(1)>>)

NoDupNames(toks) == \A j, k \in DOMAIN toks : j # k => TokName(toks[j]) # TokName(toks[k])

\* the token would be joined with its successor by the reassembly
EndsAtEq(tok) == Len(tok) > 1 /\ Find(tok, "=") = Len(tok) - 1
NoJoin(toks) == \A k \in DOMAIN toks : ~EndsAtEq(toks[k])

Permuted(toks, p) == [k \in DOMAIN toks |-> toks[p[k]]]
Reorderings(toks) == {Permuted(toks, p) : p \in Permutations(DOMAIN toks)}

\* the bindings made before the command-line tokens are added (JSON, --empty, --none)
Before == BeforeCli(Wf, input_file, empty, none).env

\* runner_input called again with the command line toks
Rerun(toks) == RunnerInput(doc, toks, input_file, empty, none, task, check_required)

\* the environment as a mapping: the earlier bindings overridden by the command line's
Overridden(toks) ==
    [n \in EnvNames(Before) \cup CliNames(toks) |->
        IF n \in CliNames(toks) THEN CliValue(toks, n) ELSE EnvGet(Before, n)]

\* every token, read on its own, is a name=value pair of a declared input whose
\* value coerces to the declared type
ValidToken(tok) ==
    /\ ~InvalidPair(tok)
    /\ DeclOf(TokName(tok)) # NoDecl
    /\ RunnerInputValue(TokValue(tok), DeclOf(TokName(tok)).type).exn = NoExn
AllValid(toks) == \A k \in DOMAIN toks : ValidToken(toks[k])

\* C2 as stated: with no name twice among the command-line tokens, the
\* environment is the JSON bindings overridden by the command line's and any
\* permutation of the tokens as given returns the same environment.
C2_AnyPermutation ==
    (Returned /\ NoDupNames(cli) /\ AllValid(cli)) =>
        \A toks \in Reorderings(cli) :
            Rerun(toks).exn = NoExn /\ AsMap(Rerun(toks).env) = AsMap(input_env)

\* C2 amended: the same, for command lines on which the reassembly joins
\* nothing (no token of length > 1 has its first = as its last character).
C2_PermutationWithoutJoin ==
    (Returned /\ NoDupNames(cli) /\ NoJoin(cli)) =>
        /\ AsMap(input_env) = Overridden(cli)
        /\ \A n \in EnvNames(input_env) : Cardinality(BindingsOf(input_env, n)) = 1
        /\ \A toks \in Reorderings(cli) :
              Rerun(toks).exn = NoExn /\ AsMap(Rerun(toks).env) = AsMap(input_env)

C2_Witness ==
    /\ Returned /\ NoDupNames(cli) /\ NoJoin(cli)
    /\ cli = << <<"a", "=", "1">>, <<"x", "=", "1">>, <<"y", "=", "h">> >>
    /\ Ny \in JsonNames /\ Nx \notin JsonNames
    /\ EnvGet(input_env, Ny) = VString(<<"h">>)

\* C3: for an array input with a scalar-like item type, the tokens name=v1 ...
\* name=vk, possibly interleaved with tokens of other names, yield exactly one
\* binding whose array is [v1, ..., vk] in command-line order, whether or not
\* the JSON source bound the name.
C3_ArrayTokensInOrder ==
    Returned =>
        /\ \A n \in CliNames(inputs) :
              IsArrayName(n) =>
                  /\ Cardinality(BindingsOf(input_env, n)) = 1
                  /\ EnvGet(input_env, n) = CliValue(inputs, n)
                  /\ Len(EnvGet(input_env, n).items) = Len(TokensFor(inputs, n))
        /\ inputs = << <<"a", "=", "1">>, <<"x", "=", "1">>, <<"a", "=", "2">> >> =>
              EnvGet(input_env, Na) = VArray("Int", <<VInt(1), VInt(2)>>)
        /\ TokensFor(inputs, Na) = << <<"a", "=", "2">>, <<"a", "=", "1">> >> =>
              EnvGet(input_env, Na) = VArray("Int", <<VInt(2), VInt(1)>>)

C3_Witness ==
    /\ Returned
    /\ Na \notin JsonNames
    /\ inputs = << <<"a", "=", "1">>, <<"x", "=", "1">>, <<"a", "=", "2">> >>
    /\ EnvGet(input_env, Na) = VArray("Int", <<VInt(1), VInt(2)>>)

\* token k of toks is a well-formed token of a declared non-array input that an
\* earlier token already named
SecondOfNonArray(toks, k) ==
    /\ k \in DOMAIN toks
    /\ ~InvalidPair(toks[k])
    /\ DeclOf(TokName(toks[k])) # NoDecl
    /\ DeclOf(TokName(toks[k])).type.t # "Array"
    /\ \E j \in 1..(k - 1) : TokName(toks[j]) = TokName(toks[k])

Coerces(tok) == RunnerInputValue(TokValue(tok), DeclOf(TokName(tok)).type).exn = NoExn

PastEmpty == pc \in {"none", "preprocess", "cli", "check", "returned"}
AfterEmpty == (pc = "none" /\ i = 1) \/ (pc = "preprocess" /\ none = <<>>)
PastNone == pc \in {"preprocess", "cli", "check", "returned"}
EmptyValue(n) ==
    IF DeclOf(n).type.t = "String" THEN VString(<<>>) ELSE VArray(DeclOf(n).type.item, <<>>)

\* C5: --empty on an array input that forbids empty arrays raises InputError; on
\* a String input it binds the empty string and on an array input allowing
\* emptiness a zero-length array, replacing a JSON value; on an input of any
\* other declared type it raises InputError.
C5_EmptyOverride ==
    /\ (\E n \in Range(empty) :
            \/ DeclOf(n).type.t = "Array" /\ DeclOf(n).type.nonempty
            \/ DeclOf(n).type.t \notin {"Array", "String"})
        => (~PastEmpty /\ (pc = "raised" => exn.kind = "InputError"))
    /\ AfterEmpty =>
          \A n \in Range(empty) :
              EnvGet(input_env, n) = EmptyValue(n) /\ Cardinality(BindingsOf(input_env, n)) = 1
    /\ Returned =>
          \A n \in Range(empty) :
              (n \notin Range(none) /\ n \notin CliNames(inputs)) =>
                  EnvGet(input_env, n) = EmptyValue(n)

C5_Witness ==
    /\ Returned
    /\ empty = <<Na>> /\ Na \in JsonNames
    /\ EnvGet(input_env, Na) = VArray("Int", <<>>)

\* C6: --none on an input whose type is not optional raises InputError; on an
\* optional input it binds null, replacing what the JSON source or --empty
\* bound, and with no command-line token for the name the returned environment
\* binds it to null.
C6_NoneOverride ==
    /\ (\E n \in Range(none) : ~DeclOf(n).type.optional)
        => (~PastNone /\ (pc = "raised" => exn.kind = "InputError"))
    /\ pc = "preprocess" =>
          \A n \in Range(none) :
              EnvGet(input_env, n) = VNull /\ Cardinality(BindingsOf(input_env, n)) = 1
    /\ Returned =>
          \A n \in Range(none) :
              n \notin CliNames(inputs) => EnvGet(input_env, n) = VNull

C6_Witness ==
    /\ Returned
    /\ none = <<No, Noa>>
    /\ No \in JsonNames /\ Noa \in Range(empty)
    /\ EnvGet(input_env, No) = VNull /\ EnvGet(input_env, Noa) = VNull

RequiredNames ==
    {Wf.available_inputs[k].name : k \in
        {j \in DOMAIN Wf.available_inputs :
            ~Wf.available_inputs[j].dflt /\ ~Wf.available_inputs[j].type.optional}}
Unbound == RequiredNames \ EnvNames(input_env)

\* C7: with check_required, if some required inputs are unbound in the final
\* environment one InputError names every one of them, and if none is unbound
\* the environment is returned (tokens x=1, y=h for required x and y return
\* {x: 1, y: "h"}).
C7_MissingInputsAllNamed ==
    /\ (Returned /\ check_required) => Unbound = {}
    /\ (pc = "raised" /\ exn.msg = "missing required inputs") =>
          /\ exn.kind = "InputError" /\ check_required
          /\ Unbound # {}
          /\ Range(exn.names) = Unbound
          /\ Len(exn.names) = Cardinality(Unbound)
    /\ (pc \in {"returned", "raised"} /\ check_required /\ input_file = <<>>
            /\ empty = <<>> /\ none = <<>>
            /\ cli = << <<"x", "=", "1">>, <<"y", "=", "h">> >>) =>
          /\ Returned
          /\ AsMap(input_env) = (Nx :> VInt(1)) @@ (Ny :> VString(<<"h">>))

C7_Witness ==
    /\ pc = "raised" /\ check_required
    /\ exn.kind = "InputError" /\ exn.names = <<Nx, Ny>>
    /\ Unbound = {Nx, Ny}

(***************************************************************************)
(* validate_input_path                                                     *)
(* fs holds the arguments and what the filesystem answers for them: the    *)
(* result of downloadable(path, directory) ("none" when no predicate is    *)
(* given), what exists at path, whether path_really_within(path, root),    *)
(* and for a directory its tree. A node of the tree is a regular file, a   *)
(* directory with entries, or a symlink with the kind of its target        *)
(* ("missing" when broken), whether os.readlink gives an absolute path and *)
(* whether it resolves within the input directory.                         *)
(***************************************************************************)
File == [kind |-> "file", target |-> "", abs |-> FALSE, inside |-> TRUE, entries |-> <<>>]
Dir(entries) == [kind |-> "dir", target |-> "", abs |-> FALSE, inside |-> TRUE, entries |-> entries]
Link(to, abs, inside) ==
    [kind |-> "link", target |-> to, abs |-> abs, inside |-> inside, entries |-> <<>>]

\* os.path.islink, os.path.exists (which follows the link), entry.is_dir()
IsLink(node) == node.kind = "link"
Exists(node) == node.kind # "link" \/ node.target # "missing"
IsDir(node) == node.kind = "dir" \/ (node.kind = "link" /\ node.target = "dir")

\* os.walk(top, followlinks=False) yields (root, subdirs, files) for one
\* directory: an entry that is_dir() goes to subdirs, every other to files
Subdirs(entries) == SelectSeq(entries, IsDir)
Files(entries) ==
    LET NonDir(node) == ~IsDir(node)
    IN  SelectSeq(entries, NonDir)

\* the directories os.walk goes down into: those of subdirs that are no symlinks
Descend(entries) ==
    LET RealDir(node) == IsDir(node) /\ ~IsLink(node)
    IN  SelectSeq(entries, RealDir)

\* the test made on each fn of files
Unusable(node) ==
    IsLink(node) /\ (~Exists(node) \/ node.abs \/ ~node.inside)

\* os.path.abspath(path), the working directory being /r
Abspath(p) == IF p = "d" THEN "/r/d" ELSE p

PathFrame ==
    UNCHANGED <<doc, task, target, input_file, empty, none, cli, inputs, i,
                input_env, json_keys, check_required, fs, valueVars, checkVars, runVars, readVars>>

\* mutant of Accepted: a downloadable path is also required to exist locally
AcceptedIfExists(f) == f.able = "yes" /\ f.kind # "none"

\* `downloadable and downloadable(path, directory)`
Accepted(f) == f.able = "yes"

\* mutant of Precheck: containment within root is tested before existence
PrecheckRootFirst(f) ==
    IF ~f.within_root
    THEN InputError("File & Directory inputs must be located within the configured root")
    ELSE IF ~((f.directory /\ f.kind = "dir") \/ (~f.directory /\ f.kind = "file"))
    THEN InputError("not found")
    ELSE NoExn

\* the two tests made before the walk, in the code's order: the path exists
\* as the kind asked for, then its absolute form is within root
Precheck(f) ==
    IF ~((f.directory /\ f.kind = "dir") \/ (~f.directory /\ f.kind = "file"))
    THEN InputError("not found")
    ELSE IF ~f.within_root
    THEN InputError("File & Directory inputs must be located within the configured root")
    ELSE NoExn

\* everything before the walk: downloadable, existence, root
ValidateStart ==
    /\ pc = "vip"
    /\ IF Accepted(fs)
       THEN pc' = "vip_returned" /\ ret' = fs.path /\ exn' = NoExn /\ todo' = <<>>
       ELSE IF Precheck(fs) # NoExn
       THEN pc' = "vip_raised" /\ exn' = Precheck(fs) /\ UNCHANGED <<ret, todo>>
       ELSE IF fs.directory
       THEN pc' = "vip_walk" /\ todo' = <<fs.tree>> /\ UNCHANGED <<ret, exn>>
       ELSE pc' = "vip_returned" /\ ret' = Abspath(fs.path) /\ exn' = NoExn /\ todo' = <<>>
    /\ PathFrame

\* one directory yielded by os.walk, top-down: its files are tested, then its
\* real subdirectories are visited
ValidateWalk ==
    /\ pc = "vip_walk"
    /\ LET entries == Head(todo)
           rest == [k \in DOMAIN Descend(entries) |-> Descend(entries)[k].entries] \o Tail(todo)
       IN  IF \E k \in DOMAIN Files(entries) : Unusable(Files(entries)[k])
           THEN /\ pc' = "vip_raised"
                /\ exn' = InputError("Input Directory contains unusable symlink")
                /\ UNCHANGED <<ret, todo>>
           ELSE IF rest = <<>>
           THEN pc' = "vip_returned" /\ ret' = Abspath(fs.path) /\ todo' = <<>> /\ UNCHANGED exn
           ELSE pc' = "vip_walk" /\ todo' = rest /\ UNCHANGED <<ret, exn>>
    /\ PathFrame

\* the symlinks explored: usable ones, broken, absolute though inside, outside
Leaves ==
    { File,
      Link("file", FALSE, TRUE), Link("dir", FALSE, TRUE),
      Link("missing", FALSE, TRUE),
      Link("file", TRUE, TRUE), Link("dir", TRUE, TRUE),
      Link("file", FALSE, FALSE), Link("dir", FALSE, FALSE) }

\* a subdirectory holds nothing, one leaf, or one directory of at most one leaf
Nodes ==
    Leaves \cup {Dir(<<>>)} \cup {Dir(<<n>>) : n \in Leaves}
           \cup {Dir(<<Dir(<<>>)>>)} \cup {Dir(<<Dir(<<n>>)>>) : n \in Leaves}

Trees == SeqsUpTo(Nodes, MaxEntries)

InitPath ==
    /\ pc = "vip"
    /\ fs \in [path : {"d", "/r/d"}, directory : BOOLEAN, able : {"none", "yes", "no"},
               kind : {"file", "dir", "none"}, within_root : BOOLEAN, tree : Trees]
    /\ fs.kind # "dir" => fs.tree = <<>>
    /\ todo = <<>> /\ ret = "" /\ exn = NoExn
    /\ doc = [workflow |-> NoTarget, tasks |-> <<>>] /\ task = PyNone /\ target = NoTarget
    /\ input_file = <<>> /\ empty = <<>> /\ none = <<>> /\ cli = <<>> /\ inputs = <<>>
    /\ i = 1 /\ input_env = <<>> /\ json_keys = {} /\ check_required = TRUE
    /\ IdleValue
    /\ IdleCheck
    /\ IdleRun
    /\ IdleRead

NextPath == ValidateStart \/ ValidateWalk

SpecPath == InitPath /\ [][NextPath]_vars

\* some symlink of the tree, at any depth, is broken, absolute or points outside
RECURSIVE HasUnusableLink(_)
HasUnusableLink(entries) ==
    \E k \in DOMAIN entries :
        \/ Unusable(entries[k])
        \/ entries[k].kind = "dir" /\ HasUnusableLink(entries[k].entries)

\* C10: for a Directory input that is not downloadable, validate_input_path
\* raises InputError when the tree holds a symlink that is broken, has an
\* absolute target or resolves outside the input directory, at any depth and
\* whether the symlink points to a file or to a directory.
C10_UnusableSymlinkRejected ==
    (/\ pc \in {"vip_returned", "vip_raised"}
     /\ fs.directory /\ fs.able # "yes"
     /\ HasUnusableLink(fs.tree)) =>
        pc = "vip_raised" /\ exn.kind = "InputError"

PathDone == pc \in {"vip_returned", "vip_raised"}
ExistsAsKind == (fs.directory /\ fs.kind = "dir") \/ (~fs.directory /\ fs.kind = "file")

\* C11: when the downloadable predicate accepts the path, validate_input_path
\* returns the raw string unchanged (not its absolute form), whatever exists
\* at the path, whether or not it is within root and whatever the directory
\* holds.
C11_DownloadableReturnedRaw ==
    (PathDone /\ fs.able = "yes") =>
        pc = "vip_returned" /\ ret = fs.path /\ exn = NoExn

C11_Witness ==
    /\ pc = "vip_returned" /\ fs.able = "yes" /\ ret = "d"
    /\ fs.kind = "none" /\ ~fs.within_root

\* C12: for a path that is not downloadable, validate_input_path returns only
\* when the path exists as the kind asked for and is within root; a path that
\* does not exist as that kind is reported as not found even when it is
\* outside root, and a path outside root is reported as such before any
\* symlink of a directory is looked at; every failure is an InputError.
C12_ExistenceThenRootThenSymlinks ==
    (PathDone /\ fs.able # "yes") =>
        /\ pc = "vip_returned" => (ExistsAsKind /\ fs.within_root /\ ret = Abspath(fs.path))
        /\ pc = "vip_raised" => exn.kind = "InputError"
        /\ ~ExistsAsKind => (pc = "vip_raised" /\ exn = InputError("not found"))
        /\ (ExistsAsKind /\ ~fs.within_root) =>
              /\ pc = "vip_raised"
              /\ exn = InputError("File & Directory inputs must be located within the configured root")
        /\ (pc = "vip_raised" /\ exn = InputError("Input Directory contains unusable symlink")) =>
              (ExistsAsKind /\ fs.within_root /\ fs.directory)

C12_Witness ==
    /\ pc = "vip_raised" /\ fs.able = "no" /\ exn = InputError("not found")
    /\ ~ExistsAsKind /\ ~fs.within_root

(***************************************************************************)
(* runner_input_value called on its own: every raw string of the universe  *)
(* against every type of the universe                                      *)
(***************************************************************************)
MaxChars == 2      \* characters of a raw command-line value

\* a digit, a letter, the decimal point, the sign
Chars == {"1", "q", ".", "-"}

RawValues ==
    SeqsUpTo(Chars, MaxChars) \cup {<<"t", "r", "u", "e">>, <<"f", "a", "l", "s", "e">>}

\* Array[Array[Int]] stands for the types left to the final raise
ValueTypes ==
    { Ty("String", FALSE), Ty("Boolean", FALSE), Ty("Int", FALSE), Ty("Int", TRUE),
      Ty("Float", FALSE), Ty("Any", FALSE),
      TyArray("Int", FALSE, FALSE), TyArray("Float", FALSE, FALSE),
      TyArray("String", FALSE, TRUE), TyArray("Array", FALSE, FALSE) }

InitValue ==
    /\ pc = "riv"
    /\ riv_s_value \in RawValues
    /\ riv_ty \in ValueTypes
    /\ riv_value = NoValue
    /\ exn = NoExn
    /\ doc = [workflow |-> NoTarget, tasks |-> <<>>] /\ task = PyNone /\ target = NoTarget
    /\ input_file = <<>> /\ empty = <<>> /\ none = <<>> /\ cli = <<>> /\ inputs = <<>>
    /\ i = 1 /\ input_env = <<>> /\ json_keys = {} /\ check_required = TRUE
    /\ fs = <<>> /\ todo = <<>> /\ ret = ""
    /\ IdleCheck
    /\ IdleRun
    /\ IdleRead

RunnerInputValueCall ==
    /\ pc = "riv"
    /\ LET r == RunnerInputValue(riv_s_value, riv_ty)
       IN  /\ riv_value' = r.v
           /\ exn' = r.exn
           /\ pc' = IF r.exn # NoExn THEN "riv_raised" ELSE "riv_returned"
    /\ UNCHANGED <<doc, task, target, input_file, empty, none, cli, inputs, i, input_env,
                   json_keys, check_required, fs, todo, ret, riv_s_value, riv_ty, checkVars,
                   runVars, readVars>>

NextValue == RunnerInputValueCall

SpecValue == InitValue /\ [][NextValue]_vars

\* C13: runner_input_value, for every declared type and every raw string,
\* either returns a typed value or fails with Error.InputError: non-numeric
\* text for an Int or a Float fails with InputError and with no other kind
\* of exception.
C13_OnlyInputError ==
    /\ pc = "riv_returned" => (exn = NoExn /\ riv_value # NoValue)
    /\ pc = "riv_raised" => exn.kind = "InputError"

(***************************************************************************)
(* check and outline                                                       *)
(* A node of a document is a record: its kind, name and called flag, the   *)
(* list obj.lint the lint engine attached to it (in the engine's order),   *)
(* and its children: workflow and tasks for a Document, body for the rest. *)
(* A finding is (pos, cls, suppressed, severity); pos is abstracted to a   *)
(* number and severity is the name of a member of LintSeverity.            *)
(***************************************************************************)
MaxLint == 2       \* lint findings over the documents of one invocation

\* LintSeverity: the value of a member, 0 for a name that is no member
SeverityValue(nm) ==
    CASE nm = "MINOR" -> 1 [] nm = "MODERATE" -> 2 [] nm = "MAJOR" -> 3
      [] nm = "CRITICAL" -> 4 [] OTHER -> 0

\* str.upper() on the threshold names explored
Upper(s) ==
    CASE s = "moderate" -> "MODERATE" [] s = "major" -> "MAJOR" [] s = "bogus" -> "BOGUS"
      [] OTHER -> s

\* getattr(LintSeverity, exit_on_severity.upper()): 0 stands for AttributeError
\* and for no threshold, which both leave exit_severity_level at None
ExitSeverityLevel(threshold) ==
    IF Truthy(threshold) THEN SeverityValue(Upper(threshold)) ELSE 0

Finding(pos, cls, suppressed, severity) ==
    [pos |-> pos, cls |-> cls, suppressed |-> suppressed, severity |-> severity]

Node(kind, nm, called, lint, body) ==
    [kind |-> kind, name |-> nm, called |-> called, lint |-> lint,
     workflow |-> <<>>, tasks |-> <<>>, body |-> body]

Document(workflow, tasks) ==
    [kind |-> "Document", name |-> "", called |-> FALSE, lint |-> <<>>,
     workflow |-> workflow, tasks |-> tasks, body |-> <<>>]

\* sorted(obj.lint, key=lambda t: t[0]): stable, by position
RECURSIVE SortedLint(_)
SortedLint(lint) ==
    IF lint = <<>> THEN <<>>
    ELSE LET k == CHOOSE k \in DOMAIN lint :
                     /\ \A j \in DOMAIN lint : lint[k].pos <= lint[j].pos
                     /\ \A j \in 1..(k - 1) : lint[j].pos # lint[k].pos
             rest == [j \in 1..(Len(lint) - 1) |-> IF j < k THEN lint[j] ELSE lint[j + 1]]
         IN  <<lint[k]>> \o SortedLint(rest)

\* order of the task names explored
NameRank(nm) == CASE nm = "ta" -> 1 [] nm = "tb" -> 2 [] nm = "tc" -> 3 [] OTHER -> 4

\* the key (not task.called, task.name) of x is below that of y
TaskKeyBelow(x, y) ==
    \/ x.called /\ ~y.called
    \/ x.called = y.called /\ NameRank(x.name) < NameRank(y.name)

\* sorted(obj.tasks, key=lambda task: (not task.called, task.name))
RECURSIVE SortedTasks(_)
SortedTasks(tasks) ==
    IF tasks = <<>> THEN <<>>
    ELSE LET k == CHOOSE k \in DOMAIN tasks :
                     /\ \A j \in DOMAIN tasks : ~TaskKeyBelow(tasks[j], tasks[k])
                     /\ \A j \in 1..(k - 1) : TaskKeyBelow(tasks[k], tasks[j])
             rest == [j \in 1..(Len(tasks) - 1) |-> IF j < k THEN tasks[j] ELSE tasks[j + 1]]
         IN  <<tasks[k]>> \o SortedTasks(rest)

\* the nodes outline descends to from obj, in its order
Children(obj) ==
    IF obj.kind = "Document" THEN obj.workflow \o SortedTasks(obj.tasks)
    ELSE obj.body

\* mutant of Emitted: the suppressed flag hides a finding even under show_all
EmittedUnlessSuppressed(f, suppressed_classes, all) ==
    ~(f.cls \in suppressed_classes) /\ ~f.suppressed

\* the filter of a finding:
\* not (suppress and str(cls) in suppress) and (show_all or not suppressed)
Emitted(f, suppressed_classes, all) ==
    ~(suppressed_classes # {} /\ f.cls \in suppressed_classes) /\ (all \/ ~f.suppressed)

\* mutant of Triggers: a finding flagged suppressed counts as well
TriggersSuppressedToo(f, threshold) ==
    /\ ExitSeverityLevel(threshold) # 0
    /\ SeverityValue(f.severity) >= ExitSeverityLevel(threshold)

\* the test that sets should_exit, made on an emitted finding
Triggers(f, threshold) ==
    /\ ExitSeverityLevel(threshold) # 0
    /\ SeverityValue(f.severity) >= ExitSeverityLevel(threshold)
    /\ ~f.suppressed

\* mutant of DetermineExitCode: strict alone gives the error code
DetermineExitCodeStrictAlone(is_strict, lint_count, eci) ==
    IF is_strict THEN 2 ELSE IF eci.should_exit THEN 2 ELSE 0

\* _determine_exit_code
DetermineExitCode(is_strict, lint_count, eci) ==
    IF is_strict /\ lint_count > 0 THEN 2
    ELSE IF eci.should_exit THEN 2
    ELSE 0

CheckFrame ==
    UNCHANGED <<doc, task, target, exn, input_file, empty, none, cli, inputs, input_env,
                json_keys, check_required, fs, todo, ret, valueVars, strict, show_all,
                suppress, uri, runVars, readVars>>

\* check up to its loop over the documents: a threshold naming no member of
\* LintSeverity is dropped with a warning
CheckStart ==
    /\ pc = "check"
    /\ exit_on_severity' =
          IF Truthy(exit_on_severity) /\ SeverityValue(Upper(exit_on_severity)) = 0
          THEN PyNone ELSE exit_on_severity
    /\ shown' = 0
    /\ exit_code_info' = NoExitInfo
    /\ pc' = "check_doc"
    /\ UNCHANGED <<i, stack, pending, out, exit_code>>
    /\ CheckFrame

\* one turn of `for uri1 in uri`: the document is loaded and linted, and its
\* outline starts; after the last one, the exit code is decided
CheckDoc ==
    /\ pc = "check_doc"
    /\ IF i <= Len(uri)
       THEN /\ stack' = <<uri[i]>>
            /\ i' = i + 1
            /\ pc' = "outline"
            /\ UNCHANGED exit_code
       ELSE /\ exit_code' = DetermineExitCode(strict, shown, exit_code_info)
            /\ pc' = "check_done"
            /\ UNCHANGED <<i, stack>>
    /\ UNCHANGED <<exit_on_severity, pending, out, shown, exit_code_info>>
    /\ CheckFrame

\* where outline goes once the findings of a node are dealt with
PcAfterLint(rest, nodes) ==
    IF rest # <<>> THEN "lint" ELSE IF nodes # <<>> THEN "outline" ELSE "check_doc"

\* outline enters a node: its findings, sorted, are the next to be filtered,
\* and its children are visited after them and before the node's siblings
OutlineVisit ==
    /\ pc = "outline"
    /\ LET obj == Head(stack)
           sorted == SortedLint(obj.lint)
       IN  /\ pending' = [k \in DOMAIN sorted |-> [node |-> obj.name, f |-> sorted[k]]]
           /\ stack' = Children(obj) \o Tail(stack)
           /\ pc' = PcAfterLint(sorted, Children(obj) \o Tail(stack))
    /\ UNCHANGED <<exit_on_severity, i, out, shown, exit_code_info, exit_code>>
    /\ CheckFrame

\* one turn of the loop over the sorted findings of the node
OutlineLint ==
    /\ pc = "lint"
    /\ LET item == Head(pending)
       IN  /\ IF Emitted(item.f, suppress, show_all)
              THEN /\ out' = Append(out, item)
                   /\ shown' = shown + 1
                   /\ IF Triggers(item.f, exit_on_severity)
                      THEN exit_code_info' =
                              [should_exit |-> TRUE,
                               severity |-> Upper(exit_on_severity),
                               reason |-> <<item.f.cls, item.f.severity>>]
                      ELSE UNCHANGED exit_code_info
              ELSE UNCHANGED <<out, shown, exit_code_info>>
           /\ pending' = Tail(pending)
           /\ pc' = PcAfterLint(Tail(pending), stack)
    /\ UNCHANGED <<exit_on_severity, i, stack, exit_code>>
    /\ CheckFrame

\* the findings explored: classes A and B, the suppressed flag, two
\* severities, positions that differ from the order of the list and tie
Findings ==
    { Finding(2, "A", FALSE, "MODERATE"), Finding(1, "B", FALSE, "MAJOR"),
      Finding(1, "B", TRUE, "MODERATE") }

\* the nodes findings are attached to: the workflow and the two tasks of the
\* first document, the task of the second
LintNodes == {"w", "ta", "tb", "t2"}

\* the findings of fl attached to node nm, in the order of fl
LintAt(fl, at, nm) ==
    LET ks == {k \in DOMAIN fl : at[k] = nm}
        Pick[n \in 0..Len(fl)] ==
            IF n = 0 THEN <<>>
            ELSE IF n \in ks THEN Append(Pick[n - 1], fl[n]) ELSE Pick[n - 1]
    IN  Pick[Len(fl)]

\* two documents: a workflow with a call and two tasks, listed uncalled
\* first; then a document of one task
Uris(fl, at) ==
    << Document(<<Node("Workflow", "w", FALSE, LintAt(fl, at, "w"),
                       <<Node("Call", "c", FALSE, <<>>, <<>>)>>)>>,
                <<Node("Task", "tb", FALSE, LintAt(fl, at, "tb"), <<>>),
                  Node("Task", "ta", TRUE, LintAt(fl, at, "ta"), <<>>)>>),
       Document(<<>>, <<Node("Task", "t2", FALSE, LintAt(fl, at, "t2"), <<>>)>>) >>

Thresholds == {PyNone, "moderate", "MAJOR", "bogus"}

InitCheck ==
    /\ pc = "check"
    /\ strict \in BOOLEAN
    /\ show_all \in BOOLEAN
    /\ suppress \in {{}, {"A"}}
    /\ exit_on_severity \in Thresholds
    /\ \E fl \in SeqsUpTo(Findings, MaxLint) :
          \E at \in [DOMAIN fl -> LintNodes] : uri = Uris(fl, at)
    /\ stack = <<>> /\ pending = <<>> /\ out = <<>>
    /\ shown = 0 /\ exit_code_info = NoExitInfo /\ exit_code = -1
    /\ exn = NoExn
    /\ doc = [workflow |-> NoTarget, tasks |-> <<>>] /\ task = PyNone /\ target = NoTarget
    /\ input_file = <<>> /\ empty = <<>> /\ none = <<>> /\ cli = <<>> /\ inputs = <<>>
    /\ i = 1 /\ input_env = <<>> /\ json_keys = {} /\ check_required = TRUE
    /\ fs = <<>> /\ todo = <<>> /\ ret = ""
    /\ IdleValue
    /\ IdleRun
    /\ IdleRead

NextCheck == CheckStart \/ CheckDoc \/ OutlineVisit \/ OutlineLint

SpecCheck == InitCheck /\ [][NextCheck]_vars

\* every node of the documents in the order outline visits them
RECURSIVE Visited(_)
Visited(nodes) ==
    IF nodes = <<>> THEN <<>>
    ELSE <<Head(nodes)>> \o Visited(Children(Head(nodes)) \o Tail(nodes))

\* every finding of the invocation, with its node, in the order of
\* the visit and by position within a node
RECURSIVE LintOf(_)
LintOf(nodes) ==
    IF nodes = <<>> THEN <<>>
    ELSE LET sorted == SortedLint(Head(nodes).lint)
         IN  [k \in DOMAIN sorted |-> [node |-> Head(nodes).name, f |-> sorted[k]]]
             \o LintOf(Tail(nodes))

AllLint == LintOf(Visited(uri))

CheckDone == pc = "check_done"

\* the threshold as check was given it names this member of LintSeverity
ThresholdIs(nm) ==
    exit_on_severity # PyNone /\ Upper(exit_on_severity) = nm

\* C14: the exit code of check is 2 if and only if strict mode is on and some
\* finding of some node of some document was shown, or should_exit is set;
\* otherwise it is 0.
C14_ExitCode ==
    CheckDone =>
        LET some_shown == \E k \in DOMAIN AllLint :
                             /\ AllLint[k].f.cls \notin suppress
                             /\ (show_all \/ ~AllLint[k].f.suppressed)
        IN  /\ exit_code \in {0, 2}
            /\ exit_code = 2 <=> ((strict /\ some_shown) \/ exit_code_info.should_exit)

\* strict mode, no threshold, and the only finding shown is in the second document
C14_Witness ==
    /\ CheckDone /\ strict /\ exit_on_severity = PyNone /\ exit_code = 2
    /\ Len(out) = 1 /\ out[1].node = "t2"

\* the only finding of the invocation has severity MODERATE
OneModerate == Len(AllLint) = 1 /\ AllLint[1].f.severity = "MODERATE"

\* C15 as stated: with no strict mode and one finding, suppressed and of
\* severity MODERATE, the exit code is 0 under the threshold MAJOR and 2
\* under the threshold MODERATE.
C15_SuppressedModerateExits ==
    (CheckDone /\ ~strict /\ OneModerate /\ AllLint[1].f.suppressed) =>
        /\ ThresholdIs("MAJOR") => exit_code = 0
        /\ ThresholdIs("MODERATE") => exit_code = 2

\* C15, amended: with no strict mode and one finding of severity MODERATE,
\* the exit code is 0 under the threshold MAJOR; under the threshold MODERATE
\* it is 2 when the finding is not suppressed and its class is not in the
\* suppression set, and 0 when the finding is suppressed.
C15_ModerateExits ==
    (CheckDone /\ ~strict /\ OneModerate) =>
        /\ ThresholdIs("MAJOR") => exit_code = 0
        /\ ThresholdIs("MODERATE") =>
              (exit_code = IF ~AllLint[1].f.suppressed /\ AllLint[1].f.cls \notin suppress
                           THEN 2 ELSE 0)

\* the suppressed finding is printed (show_all) and still the exit code is 0
C15_Witness ==
    /\ CheckDone /\ ~strict /\ OneModerate /\ AllLint[1].f.suppressed
    /\ ThresholdIs("MODERATE") /\ Len(out) = 1 /\ exit_code = 0

\* a printed finding that meets the threshold and is not suppressed
Triggering(item) ==
    /\ Truthy(exit_on_severity)
    /\ SeverityValue(Upper(exit_on_severity)) > 0
    /\ SeverityValue(item.f.severity) >= SeverityValue(Upper(exit_on_severity))
    /\ ~item.f.suppressed

\* C16: over a whole invocation should_exit, once true, stays true, and the
\* reason recorded in exit_code_info is that of the first finding that
\* triggered it.
C16_FirstTriggerRecorded ==
    /\ [](exit_code_info.should_exit =>
             \E k \in DOMAIN out :
                 /\ Triggering(out[k])
                 /\ \A j \in 1..(k - 1) : ~Triggering(out[j])
                 /\ exit_code_info.reason = <<out[k].f.cls, out[k].f.severity>>)
    /\ [][exit_code_info.should_exit => exit_code_info'.should_exit]_vars

\* the findings the filter lets through, of all nodes, in order
Expected ==
    LET Passes(item) == item.f.cls \notin suppress /\ (show_all \/ ~item.f.suppressed)
    IN  SelectSeq(AllLint, Passes)

\* C17: a finding of a visited node is emitted if and only if its class is
\* not in the suppression set and (show_all is set or it is not suppressed);
\* shown counts the emitted findings; should_exit is set only when an emitted
\* finding is not suppressed and has a severity at or above the threshold.
C17_EmittedIffPassesFilter ==
    /\ shown = Len(out)
    /\ Len(out) <= Len(Expected) /\ out = SubSeq(Expected, 1, Len(out))
    /\ CheckDone => out = Expected
    /\ exit_code_info.should_exit => \E k \in DOMAIN out : Triggering(out[k])

\* show_all prints a suppressed finding while the suppression set hides another
C17_Witness ==
    /\ CheckDone /\ show_all /\ Len(AllLint) = 2 /\ Len(out) = 1
    /\ out[1].f.suppressed /\ shown = 1

(***************************************************************************)
(* runner: the call of runtime.run and the report of its failure           *)
(* raised is the exception runtime.run raises with its chain of __cause__, *)
(* outermost first (<<>> when the run succeeds): layers of RunFailed, each *)
(* with its run_dir (PyNone when it has none), then the root cause.        *)
(***************************************************************************)
MaxLayers == 2     \* RunFailed layers around the root cause

Exc(kind, run_dir, status) == [kind |-> kind, run_dir |-> run_dir, exit_status |-> status]

\* mutant of PyOr: the later value wins when it is set
PyOrLast(a, b) == IF Truthy(b) THEN b ELSE a

\* the value of `a or b`
PyOr(a, b) == IF Truthy(a) THEN a ELSE b

\* mutant of ExitStatusOf: the exit status of the command is passed on as it is
ExitStatusAsIs(cause) ==
    IF cause.kind = "CommandFailed" THEN cause.exit_status ELSE 2

\* exit_status after the test of CommandFailed:
\* (lambda v: v if v else exit_status)(getattr(exn, "exit_status", 0))
ExitStatusOf(cause) ==
    IF cause.kind = "CommandFailed" /\ cause.exit_status # 0 THEN cause.exit_status ELSE 2

\* mutant of FromDir: from_dir is reported whenever the innermost layer has a run_dir
FromDirAlways(from, dir) == IF Truthy(from) THEN from ELSE PyNone

\* info["from_dir"], PyNone when the key is not set
FromDir(from, dir) == IF Truthy(from) /\ from # dir THEN from ELSE PyNone

RunFrame ==
    UNCHANGED <<doc, task, target, input_file, empty, none, cli, inputs, input_env,
                json_keys, check_required, fs, todo, ret, valueVars, strict, show_all,
                suppress, exit_on_severity, uri, stack, pending, out, shown,
                exit_code_info, debug, raised, verbose, error_json, json_only, setup,
                readVars>>

\* something runner does that is seen from outside, with the run directory
\* it concerns or names (PyNone when none)
Ev(ev, dir) == [ev |-> ev, dir |-> dir]

\* runner_standard_output of an error: written only when --error-json or
\* --stdout-file asks for it
ErrorOutput(wanted) == IF wanted THEN <<Ev("error_json", PyNone)>> ELSE <<>>

\* mutant of RootChecks: the download cache directory is not looked at
RootChecksRunDirOnly(s) == s.dir_within

\* the two policy checks on file_io.root: the run directory, and the
\* download cache directory when the cache is in use and its path absolute
RootChecks(s) ==
    /\ s.dir_within
    /\ ~(s.cache_on /\ s.cache_abs /\ ~s.cache_within)

\* mutant of CallRun: the engine is started again
CallRunTwice == <<Ev("cache_new", PyNone), Ev("run", PyNone), Ev("run", PyNone)>>

\* the cache context is entered, then runtime.run is called
CallRun == <<Ev("cache_new", PyNone), Ev("run", PyNone)>>

\* mutant of Finally: the artifacts are written on the success path only
FinallyOnSuccess(dir) == IF dir = "d0" THEN <<Ev("rerun", dir), Ev("wdl", dir)>> ELSE <<>>

\* mutant of Finally: the archive of the document is left out
FinallyRerunOnly(dir) == IF Truthy(dir) THEN <<Ev("rerun", dir)>> ELSE <<>>

\* the finally clause: the rerun file and the copy of the sources
Finally(dir) == IF Truthy(dir) THEN <<Ev("rerun", dir), Ev("wdl", dir)>> ELSE <<>>

\* the with block is left: the cache context is released
Cleanup == <<Ev("cache_exit", PyNone)>>

\* the traceback argument of runtime.error_json: set unless the root cause
\* is an Error.RuntimeError
Traceback(cause) == cause.kind \notin {"CommandFailed", "RuntimeError"}

\* runner up to the two checks of file_io.root
RunnerSetup ==
    /\ pc = "runner"
    /\ IF RootChecks(setup)
       THEN pc' = "load" /\ UNCHANGED <<exit_code, trace>>
       ELSE /\ pc' = "run_exited" /\ exit_code' = 2
            /\ trace' = Append(trace, Ev("error_log", PyNone))
    /\ UNCHANGED <<exn, rundir, from_rundir, exit_status, info, artifacts, i>>
    /\ RunFrame

\* the document is loaded and runner_input called; an InputError ends in
\* die, any other exception is raised again (main turns a document error
\* into exit code 2 unless debug is set); then --json prints the inputs
RunnerLoad ==
    /\ pc = "load"
    /\ CASE setup.staged = "InputError" ->
               /\ pc' = "run_exited" /\ exit_code' = 2 /\ UNCHANGED exn
               /\ trace' = trace \o ErrorOutput(error_json)
         [] setup.staged = "SyntaxError" ->
               /\ trace' = trace \o ErrorOutput(error_json)
               /\ IF debug
                  THEN pc' = "run_raised" /\ exit_code' = 1
                       /\ exn' = [NoExn EXCEPT !.kind = "SyntaxError"]
                  ELSE pc' = "run_exited" /\ exit_code' = 2 /\ UNCHANGED exn
         [] setup.staged = "Exception" ->
               /\ pc' = "run_raised" /\ exit_code' = 1
               /\ exn' = [NoExn EXCEPT !.kind = "Exception"]
               /\ trace' = trace \o ErrorOutput(error_json)
         [] OTHER ->
               IF json_only
               THEN /\ pc' = "run_exited" /\ exit_code' = 0 /\ UNCHANGED exn
                    /\ trace' = Append(trace, Ev("input_json", PyNone))
               ELSE pc' = "run" /\ UNCHANGED <<exit_code, exn, trace>>
    /\ UNCHANGED <<rundir, from_rundir, exit_status, info, artifacts, i>>
    /\ RunFrame

\* runtime.run returns, and runner leaves its artifacts in the run
\* directory, leaves the with block and reports the outputs; or it raises,
\* and the handler starts by writing the error
RunnerRun ==
    /\ pc = "run"
    /\ IF raised = <<>>
       THEN /\ rundir' = "d0"
            /\ info' = [NoInfo EXCEPT !.dir = "d0"]
            /\ artifacts' = {"d0"}
            /\ exit_code' = 0
            /\ pc' = "run_exited"
            /\ trace' = trace \o CallRun \o Finally("d0") \o Cleanup
                              \o <<Ev("outputs", "d0")>>
            /\ UNCHANGED <<exit_status, from_rundir, i>>
       ELSE /\ exit_status' = 2
            /\ from_rundir' = PyNone
            /\ i' = 1
            /\ pc' = "unwrap"
            /\ trace' = trace \o CallRun \o ErrorOutput(error_json)
            /\ UNCHANGED <<rundir, info, artifacts, exit_code>>
    /\ UNCHANGED exn
    /\ RunFrame

\* one turn of `while isinstance(exn, runtime.RunFailed)`
RunnerUnwrap ==
    /\ pc = "unwrap"
    /\ raised[i].kind = "RunFailed"
    /\ rundir' = PyOr(rundir, raised[i].run_dir)
    /\ from_rundir' = raised[i].run_dir
    /\ i' = i + 1
    /\ UNCHANGED <<pc, exn, exit_status, info, artifacts, exit_code, trace>>
    /\ RunFrame

\* after the loop: the exit status, the report and its log record, then the
\* exception is raised again (an uncaught exception ends Python with exit
\* code 1) or the process exits; on the way out the finally clause writes
\* the artifacts when there is a rundir, and the with block is left
RunnerReport ==
    /\ pc = "unwrap"
    /\ raised[i].kind # "RunFailed"
    /\ exit_status' = ExitStatusOf(raised[i])
    /\ info' = [dir |-> IF Truthy(rundir) THEN rundir ELSE PyNone,
                from_dir |-> FromDir(from_rundir, rundir),
                traceback |-> Traceback(raised[i])]
    /\ IF raised[i].kind = "AssertionError" \/ debug
       THEN pc' = "run_raised" /\ exn' = [NoExn EXCEPT !.kind = raised[i].kind] /\ exit_code' = 1
       ELSE pc' = "run_exited" /\ exit_code' = ExitStatusOf(raised[i]) /\ UNCHANGED exn
    /\ artifacts' = IF Truthy(rundir) THEN {rundir} ELSE {}
    /\ trace' = trace \o <<Ev("error_log", IF Truthy(rundir) THEN rundir ELSE PyNone)>>
                      \o Finally(rundir) \o Cleanup
    /\ UNCHANGED <<rundir, from_rundir, i>>
    /\ RunFrame

\* the run directories of the layers
RunDirs == {PyNone, "d1", "d2"}

\* the root causes: a failed command with its exit status, another
\* Error.RuntimeError, an exception of no known class, a failed assertion
Causes ==
    { Exc("CommandFailed", PyNone, 0), Exc("CommandFailed", PyNone, 1),
      Exc("CommandFailed", PyNone, 3), Exc("RuntimeError", PyNone, 0),
      Exc("Exception", PyNone, 0), Exc("AssertionError", PyNone, 0) }

Chains ==
    { [k \in DOMAIN ds |-> Exc("RunFailed", ds[k], 0)] \o <<c>> :
          ds \in SeqsUpTo(RunDirs, MaxLayers), c \in Causes }

\* what runner finds before the run: the run directory within file_io.root,
\* the download cache in use (get or put), its dir absolute and within
\* file_io.root, and how load and runner_input end
Setups ==
    [dir_within : BOOLEAN, cache_on : BOOLEAN, cache_abs : BOOLEAN, cache_within : BOOLEAN,
     staged : {"ok", "InputError", "SyntaxError", "Exception"}]

\* a setup that lets the run start
GoodSetup ==
    [dir_within |-> TRUE, cache_on |-> TRUE, cache_abs |-> TRUE, cache_within |-> TRUE,
     staged |-> "ok"]

InitRun ==
    /\ pc = "runner"
    /\ debug \in BOOLEAN
    /\ verbose \in BOOLEAN
    /\ error_json \in BOOLEAN
    /\ \/ setup = GoodSetup /\ json_only = FALSE /\ raised \in {<<>>} \cup Chains
       \/ setup \in Setups /\ json_only \in BOOLEAN /\ raised = <<>>
    /\ trace = <<>>
    /\ rundir = PyNone /\ from_rundir = PyNone /\ exit_status = 0
    /\ info = NoInfo /\ artifacts = {}
    /\ exit_code = -1 /\ exn = NoExn
    /\ doc = [workflow |-> NoTarget, tasks |-> <<>>] /\ task = PyNone /\ target = NoTarget
    /\ input_file = <<>> /\ empty = <<>> /\ none = <<>> /\ cli = <<>> /\ inputs = <<>>
    /\ i = 1 /\ input_env = <<>> /\ json_keys = {} /\ check_required = TRUE
    /\ fs = <<>> /\ todo = <<>> /\ ret = ""
    /\ IdleValue
    /\ IdleRead
    /\ strict = FALSE /\ show_all = FALSE /\ suppress = {} /\ exit_on_severity = PyNone
    /\ uri = <<>> /\ stack = <<>> /\ pending = <<>> /\ out = <<>>
    /\ shown = 0 /\ exit_code_info = NoExitInfo

NextRun == RunnerSetup \/ RunnerLoad \/ RunnerRun \/ RunnerUnwrap \/ RunnerReport

SpecRun == InitRun /\ [][NextRun]_vars

\* the RunFailed layers of the failure, outermost first, and its root cause
Layers ==
    LET IsLayer(e) == e.kind = "RunFailed"
    IN  SelectSeq(raised, IsLayer)
Cause == raised[Len(raised)]

\* the handler of the failure has run to its end
RunFailedEnded == pc \in {"run_exited", "run_raised"} /\ raised # <<>>

HasRunDir(e) == e.run_dir # PyNone

\* C18: the dir reported for a failed run is the run_dir of the outermost
\* RunFailed layer that has one, a deeper layer's only when no layer outside
\* it has one; when no layer has one, no dir is reported and no artifacts
\* are written.
C18_OutermostRunDir ==
    RunFailedEnded =>
        IF \E k \in DOMAIN Layers : HasRunDir(Layers[k])
        THEN LET k == CHOOSE k \in DOMAIN Layers :
                         HasRunDir(Layers[k]) /\ \A j \in 1..(k - 1) : ~HasRunDir(Layers[j])
             IN  info.dir = Layers[k].run_dir /\ artifacts = {Layers[k].run_dir}
        ELSE info.dir = PyNone /\ artifacts = {}

\* the outer layer has no run_dir and the inner one's is reported
C18_Witness ==
    /\ RunFailedEnded /\ Len(Layers) = 2
    /\ ~HasRunDir(Layers[1]) /\ Layers[2].run_dir = "d1"
    /\ info.dir = "d1" /\ artifacts = {"d1"}

\* C19: from_dir is reported if and only if the innermost RunFailed layer has
\* a run_dir that differs from the reported dir, and is then that run_dir;
\* with a single RunFailed layer it is never reported.
C19_FromDir ==
    RunFailedEnded =>
        /\ info.from_dir # PyNone <=>
              /\ Layers # <<>>
              /\ HasRunDir(Layers[Len(Layers)])
              /\ Layers[Len(Layers)].run_dir # info.dir
        /\ info.from_dir # PyNone => info.from_dir = Layers[Len(Layers)].run_dir
        /\ Len(Layers) = 1 => info.from_dir = PyNone

C19_Witness ==
    /\ RunFailedEnded /\ Len(Layers) = 2
    /\ info.dir = "d1" /\ info.from_dir = "d2"

\* the failure is a chain of RunFailed ending in an Error.RuntimeError
Classified == Layers # <<>> /\ Cause.kind \in {"CommandFailed", "RuntimeError"}

\* C20 as stated: a classified runtime error with debug mode off ends the
\* process with exit code 2, and the exit code is 0 only when the run
\* succeeded.
C20_ClassifiedExitsTwo ==
    /\ (RunFailedEnded /\ Classified /\ ~debug) => exit_code = 2
    /\ (pc \in {"run_exited", "run_raised"} /\ exit_code = 0) => raised = <<>>

\* C20, amended: a classified runtime error with debug mode off ends the
\* process with the exit status of the failed command when the root cause is
\* a CommandFailed with a non-zero exit_status, and with exit code 2
\* otherwise; the exit code is 0 only when the run succeeded.
C20_ClassifiedExitStatus ==
    /\ (RunFailedEnded /\ Classified /\ ~debug) =>
          exit_code = IF Cause.kind = "CommandFailed" /\ Cause.exit_status # 0
                      THEN Cause.exit_status ELSE 2
    /\ (pc \in {"run_exited", "run_raised"} /\ exit_code = 0) => raised = <<>>

C20_Witness ==
    /\ RunFailedEnded /\ Classified /\ ~debug
    /\ Cause.kind = "CommandFailed" /\ Cause.exit_status = 3 /\ exit_code = 3

\* runner has ended, by sys.exit or by an exception
RunEnded == pc \in {"run_exited", "run_raised"}

\* the places of trace where ev happens
At(ev) == {k \in DOMAIN trace : trace[k].ev = ev}

\* C21: whenever runner knows a run directory after runtime.run returned or
\* failed, on the exit and on the re-raise path alike, the rerun file and the
\* copy of the document are each written once, into that directory, before
\* the cache context is released; when it knows none, neither is written.
C21_ArtifactsOnceUnderCache ==
    /\ Cardinality(At("rerun")) <= 1 /\ Cardinality(At("wdl")) <= 1
    /\ (RunEnded /\ Truthy(rundir)) =>
          /\ Cardinality(At("rerun")) = 1 /\ Cardinality(At("wdl")) = 1
          /\ Cardinality(At("cache_exit")) = 1
          /\ \A k \in At("rerun") \cup At("wdl") :
                /\ trace[k].dir = rundir
                /\ \A c \in At("cache_exit") : k < c
    /\ (RunEnded /\ ~Truthy(rundir)) => (At("rerun") = {} /\ At("wdl") = {})

\* the failure is raised again and the artifacts are there
C21_Witness ==
    /\ pc = "run_raised" /\ raised # <<>> /\ rundir = "d2"
    /\ At("rerun") # {} /\ At("wdl") # {}

\* C22 as stated: the failure report carries a full trace if and only if
\* verbose or debug mode is on or the root cause is no Error.RuntimeError.
C22_TraceIffVerboseOrUnclassified ==
    RunFailedEnded =>
        (info.traceback <=>
            (verbose \/ debug \/ Cause.kind \notin {"CommandFailed", "RuntimeError"}))

\* C26: runtime.run is called at most once: after it raised it is not called
\* again, and runner ends by exiting with the exit status of that failure or
\* by raising its root cause again.
C26_RunCalledOnce ==
    /\ Cardinality(At("run")) <= 1
    /\ RunFailedEnded =>
          /\ Cardinality(At("run")) = 1
          /\ \/ pc = "run_raised" /\ exn.kind = Cause.kind
             \/ pc = "run_exited" /\ exit_code = exit_status

C26_Witness ==
    /\ RunFailedEnded /\ pc = "run_exited" /\ Len(Layers) = 2
    /\ Cardinality(At("run")) = 1

\* the checks of file_io.root pass, the document loads and runner_input
\* returns, and --json is not set
MayRun ==
    /\ setup.dir_within
    /\ (setup.cache_on /\ setup.cache_abs) => setup.cache_within
    /\ setup.staged = "ok"
    /\ ~json_only

\* C27: the cache is acquired and runtime.run called only after the checks
\* of file_io.root passed, the document loaded and runner_input returned, and
\* never with --json; when one of these fails or --json is set the process
\* ends without the cache, without the engine and without artifacts.
C27_EngineOnlyAfterChecks ==
    /\ (At("cache_new") # {} \/ At("run") # {} \/ At("rerun") # {} \/ At("wdl") # {}
          \/ artifacts # {}) => MayRun
    /\ \A r \in At("run") : \E c \in At("cache_new") : c < r
    /\ ~MayRun => pc \in {"runner", "load", "run_exited", "run_raised"}

\* the download cache directory is outside file_io.root
C27_Witness ==
    /\ RunEnded /\ setup.dir_within /\ setup.cache_on /\ setup.cache_abs
    /\ ~setup.cache_within /\ setup.staged = "ok" /\ ~json_only
    /\ exit_code = 2 /\ At("cache_new") = {} /\ At("run") = {}

\* C30 as stated: every report that names a run directory (the outputs with
\* dir, the error log record with dir) comes after the rerun file and the
\* copy of the document were written to that directory.
C30_ArtifactsBeforeReport ==
    \A k \in DOMAIN trace :
        (trace[k].ev \in {"outputs", "error_log", "error_json"} /\ Truthy(trace[k].dir)) =>
            /\ \E a \in At("rerun") : a < k /\ trace[a].dir = trace[k].dir
            /\ \E a \in At("wdl") : a < k /\ trace[a].dir = trace[k].dir


\* C30, amended: the outputs of a successful run, which name the run
\* directory, come after the rerun file and the copy of the document were
\* written to it; on failure the error log record naming the run directory
\* comes first and both artifacts are written after it, before runner ends.
C30_ArtifactsBeforeOutputs ==
    /\ \A k \in At("outputs") :
          /\ \E a \in At("rerun") : a < k /\ trace[a].dir = trace[k].dir
          /\ \E a \in At("wdl") : a < k /\ trace[a].dir = trace[k].dir
    /\ \A k \in At("error_log") :
          (RunEnded /\ Truthy(trace[k].dir)) =>
              /\ \E a \in At("rerun") : a > k /\ trace[a].dir = trace[k].dir
              /\ \E a \in At("wdl") : a > k /\ trace[a].dir = trace[k].dir

C30_Witness ==
    /\ RunFailedEnded /\ pc = "run_exited"
    /\ \E k \in At("error_log") : trace[k].dir = "d1" /\ \E a \in At("rerun") : a > k


(***************************************************************************)
(* runner_input on command lines whose arguments were split at "=" and on  *)
(* runtime overrides: the workflow has calls, so that available_inputs     *)
(* holds the namespaced a.b._runtime beside its own _runtime.              *)
(***************************************************************************)
NabRuntime == <<"a", ".", "b", ".">> \o NRuntime
Eq1 == <<"=", "1">>

\* input { Int x  String y  Array[Int]? oa }, _runtime and a.b._runtime
MergeInputs ==
    << Decl(Nx, Ty("Int", FALSE), FALSE),
       Decl(Ny, Ty("String", FALSE), FALSE),
       Decl(Noa, TyArray("Int", TRUE, FALSE), FALSE),
       Decl(NRuntime, Ty("Any", FALSE), TRUE),
       Decl(NabRuntime, Ty("Any", FALSE), TRUE) >>

MergeWf == [kind |-> "workflow", name |-> "w", available_inputs |-> MergeInputs]

\* runtime.c  a.b.runtime.c  runtime  a.runtime.c  runtime.runtime.c
NameRuntimeC == Runtime \o <<".", "c">>
NameAbRuntimeC == <<"a", ".", "b", ".">> \o Runtime \o <<".", "c">>
NameARuntimeC == <<"a", ".">> \o Runtime \o <<".", "c">>
NameRuntimeRuntimeC == Runtime \o <<".">> \o Runtime \o <<".", "c">>

\* "", 1, y=, oa= and the runtime overrides with the value 1
MergeTokens ==
    { <<>>, <<"1">>, <<"y", "=">>, <<"o", "a", "=">>,
      NameRuntimeC \o Eq1, NameAbRuntimeC \o Eq1, Runtime \o Eq1,
      NameARuntimeC \o Eq1, NameRuntimeRuntimeC \o Eq1 }

MergeJsonFiles == { <<>>, <<KV(Noa, VArray("Int", <<VInt(5)>>))>> }

InitMerge ==
    /\ pc = "start"
    /\ doc = [workflow |-> MergeWf, tasks |-> <<>>]
    /\ task = PyNone
    /\ target = NoTarget
    /\ exn = NoExn
    /\ input_file \in MergeJsonFiles
    /\ empty \in {<<>>, <<Noa>>}
    /\ none \in {<<>>, <<Noa>>}
    /\ cli \in SeqsUpTo(MergeTokens, MaxTokens)
    /\ inputs = cli
    /\ i = 1
    /\ input_env = <<>>
    /\ json_keys = {}
    /\ check_required \in BOOLEAN
    /\ Idle

SpecMerge == InitMerge /\ [][NextInput]_vars

RECURSIVE Flatten(_)
Flatten(toks) == IF toks = <<>> THEN <<>> ELSE toks[1] \o Flatten(Tail(toks))

\* the tokens after the reassembly: from the left, a token that ends exactly
\* at its "=" and has a successor takes that successor, and the scan goes on
\* behind the pair
RECURSIVE Reassembled(_)
Reassembled(toks) ==
    IF toks = <<>> THEN <<>>
    ELSE IF EndsAtEq(toks[1]) /\ Len(toks) > 1
    THEN <<toks[1] \o toks[2]>> \o Reassembled(SubSeq(toks, 3, Len(toks)))
    ELSE <<toks[1]>> \o Reassembled(Tail(toks))

PastPreprocess == pc \in {"cli", "check", "returned"}
TokYEq == <<"y", "=">>
TokOaEq == <<"o", "a", "=">>

\* C23: the reassembly joins every token that ends exactly at its "=" and has
\* a successor with exactly that successor, going on behind the pair, so a
\* joined token is not examined again (y=, y=, 1 becomes y=y=, 1); the
\* concatenation of all tokens is unchanged and their number never grows; a
\* final token ending at "=" that was not taken by its predecessor is kept
\* and binds the empty string.
C23_Reassembly ==
    PastPreprocess =>
        /\ inputs = Reassembled(cli)
        /\ Flatten(inputs) = Flatten(cli)
        /\ Len(inputs) <= Len(cli)
        /\ cli = <<TokYEq, TokYEq, <<"1">>>> => inputs = <<TokYEq \o TokYEq, <<"1">>>>
        /\ (/\ cli # <<>> /\ EndsAtEq(cli[Len(cli)])
            /\ (Len(cli) = 1 \/ ~EndsAtEq(cli[Len(cli) - 1])))
           => /\ inputs[Len(inputs)] = cli[Len(cli)]
              /\ (Returned /\ cli[Len(cli)] = TokYEq) => EnvGet(input_env, Ny) = VString(<<>>)

C23_Witness ==
    /\ Returned
    /\ cli = <<TokOaEq, <<"1">>, TokYEq>>
    /\ inputs = <<TokOaEq \o <<"1">>, TokYEq>>
    /\ EnvGet(input_env, Ny) = VString(<<>>)

\* the name is a declared input of the target
Declared(n) == \E k \in DOMAIN target.available_inputs : target.available_inputs[k].name = n

\* some segment of the dotted name is "runtime" and a segment follows the first such
RuntimeThenMore(name) ==
    LET segs == SplitDots(name)
    IN  \E k \in DOMAIN segs :
            /\ segs[k] = Runtime /\ k < Len(segs)
            /\ \A j \in 1..(k - 1) : segs[j] # Runtime

\* the segments before the first "runtime", then _runtime
RuntimeSchema(name) ==
    LET segs == SplitDots(name)
        k == CHOOSE k \in DOMAIN segs : segs[k] = Runtime /\ \A j \in 1..(k - 1) : segs[j] # Runtime
    IN  JoinDots(SubSeq(segs, 1, k - 1) \o <<NRuntime>>)

\* C24: a well-formed token whose name is no declared input is taken as a
\* runtime override only if a segment of the name is "runtime" and a segment
\* follows the first such; the schema is the declaration named by the segments
\* before it plus _runtime; without such a declaration the token is rejected
\* with InputError, with it the value read by that schema is bound under the
\* name as typed.
C24_RuntimeOverride ==
    [][(pc = "cli" /\ ~InvalidPair(inputs[i]) /\ ~Declared(TokName(inputs[i]))) =>
          LET name == TokName(inputs[i])
              schema == AvailableGet(target.available_inputs, RuntimeSchema(name))
          IN  IF RuntimeThenMore(name) /\ Declared(RuntimeSchema(name))
              THEN /\ exn' # InputError("No such input")
                   /\ exn' = NoExn =>
                        /\ EnvNames(input_env') = EnvNames(input_env) \cup {name}
                        /\ EnvGet(input_env, name) = NoValue =>
                              EnvGet(input_env', name)
                                  = RunnerInputValue(TokValue(inputs[i]), schema.type).v
              ELSE pc' = "raised" /\ exn' = InputError("No such input")]_vars

C24_Witness ==
    /\ Returned
    /\ inputs = <<NameAbRuntimeC \o Eq1, NameRuntimeRuntimeC \o Eq1>>
    /\ EnvNames(input_env) = {NameAbRuntimeC, NameRuntimeRuntimeC}
    /\ EnvGet(input_env, NameAbRuntimeC) = VInt(1)

\* C28: runner_input never fails an assertion: whenever a command-line token
\* with an array value meets a binding that did not come from the JSON file,
\* that binding is an array of the same item type, and no AssertionError is
\* raised.
C28_NoAssertionFailure ==
    /\ (pc = "cli" /\ ~InvalidPair(inputs[i]) /\ Declared(TokName(inputs[i]))) =>
          LET name == TokName(inputs[i])
              r == RunnerInputValue(TokValue(inputs[i]),
                                    AvailableGet(target.available_inputs, name).type)
              existing == EnvGet(input_env, name)
          IN  (r.exn = NoExn /\ IsArray(r.v) /\ existing # NoValue /\ name \notin json_keys)
                  => (IsArray(existing) /\ r.v.it = existing.it)
    /\ pc = "raised" => exn.kind # "AssertionError"

(***************************************************************************)
(* outline with its descents: one frame per call of outline, holding obj,  *)
(* whether its heading was printed, the children still to descend to, and  *)
(* whether first_descent is non-empty.  out holds the lines printed: the   *)
(* heading of a node and its findings.                                     *)
(***************************************************************************)
NoFinding == Finding(0, "", FALSE, "")
Line(what, nm, f) == [line |-> what, node |-> nm, f |-> f]
Frame(obj) == [obj |-> obj, entered |-> FALSE, rest |-> <<>>, first_descent |-> FALSE]

\* the lines of the loop over sorted(obj.lint) for the findings passing the filter
LintLines(obj, suppressed_classes, all) ==
    LET sorted == SortedLint(obj.lint)
        Passes(f) == Emitted(f, suppressed_classes, all)
        kept == SelectSeq(sorted, Passes)
    IN  [k \in DOMAIN kept |-> Line("lint", obj.name, kept[k])]

\* mutant of DescendLint: the findings are printed at every descent
DescendLintAlways(first_descent, obj, suppressed_classes, all) ==
    LintLines(obj, suppressed_classes, all)

\* descend: show lint for the node just prior to first descent beneath it
DescendLint(first_descent, obj, suppressed_classes, all) ==
    IF ~first_descent THEN LintLines(obj, suppressed_classes, all) ELSE <<>>

\* exit_code_info after the lines were printed: the last triggering one is recorded
InfoAfter(eci, lines, threshold) ==
    LET Trig(l) == Triggers(l.f, threshold)
        trig == SelectSeq(lines, Trig)
    IN  IF trig = <<>> THEN eci
        ELSE [should_exit |-> TRUE, severity |-> Upper(threshold),
              reason |-> <<trig[Len(trig)].f.cls, trig[Len(trig)].f.severity>>]

OutlineFrame ==
    /\ UNCHANGED <<exit_on_severity, i, pending, exit_code>>
    /\ CheckFrame

\* outline prints the heading of obj; a Document has none
OutlineEnter ==
    /\ pc = "outline_call"
    /\ ~Head(stack).entered
    /\ LET fr == Head(stack)
       IN  /\ out' = IF fr.obj.kind = "Document" THEN out
                     ELSE Append(out, Line("heading", fr.obj.name, NoFinding))
           /\ stack' = <<[fr EXCEPT !.entered = TRUE, !.rest = Children(fr.obj)]>> \o Tail(stack)
    /\ UNCHANGED <<pc, shown, exit_code_info>>
    /\ OutlineFrame

\* descend(dobj): the findings of obj if this is the first descent, then outline(dobj)
OutlineDescend ==
    /\ pc = "outline_call"
    /\ Head(stack).entered /\ Head(stack).rest # <<>>
    /\ LET fr == Head(stack)
           lines == DescendLint(fr.first_descent, fr.obj, suppress, show_all)
       IN  /\ out' = out \o lines
           /\ shown' = shown + Len(lines)
           /\ exit_code_info' = InfoAfter(exit_code_info, lines, exit_on_severity)
           /\ stack' = <<Frame(Head(fr.rest)),
                         [fr EXCEPT !.rest = Tail(fr.rest), !.first_descent = TRUE]>>
                       \o Tail(stack)
    /\ UNCHANGED pc
    /\ OutlineFrame

\* the closing descend(): the findings of obj if there was no descent, and outline returns
OutlineReturn ==
    /\ pc = "outline_call"
    /\ Head(stack).entered /\ Head(stack).rest = <<>>
    /\ LET fr == Head(stack)
           lines == DescendLint(fr.first_descent, fr.obj, suppress, show_all)
       IN  /\ out' = out \o lines
           /\ shown' = shown + Len(lines)
           /\ exit_code_info' = InfoAfter(exit_code_info, lines, exit_on_severity)
           /\ stack' = Tail(stack)
           /\ pc' = IF Tail(stack) = <<>> THEN "outline_returned" ELSE "outline_call"
    /\ OutlineFrame

\* the nodes findings are attached to
OutlineNodes == {"w", "c", "s", "d", "t"}

\* a workflow w of a call c and a scatter s over a call d, and a task t:
\* nodes with two children, one child and none
OutlineDoc(fl, at) ==
    Document(<<Node("Workflow", "w", FALSE, LintAt(fl, at, "w"),
                    <<Node("Call", "c", FALSE, LintAt(fl, at, "c"), <<>>),
                      Node("Scatter", "s", FALSE, LintAt(fl, at, "s"),
                           <<Node("Call", "d", FALSE, LintAt(fl, at, "d"), <<>>)>>)>>)>>,
             <<Node("Task", "t", TRUE, LintAt(fl, at, "t"), <<>>)>>)

InitOutline ==
    /\ pc = "outline_call"
    /\ strict = FALSE
    /\ show_all \in BOOLEAN
    /\ suppress \in {{}, {"A"}}
    /\ exit_on_severity \in {PyNone, "MAJOR"}
    /\ \E fl \in SeqsUpTo(Findings, MaxLint) :
          \E at \in [DOMAIN fl -> OutlineNodes] : uri = <<OutlineDoc(fl, at)>>
    /\ stack = <<Frame(uri[1])>> /\ pending = <<>> /\ out = <<>>
    /\ shown = 0 /\ exit_code_info = NoExitInfo /\ exit_code = -1
    /\ exn = NoExn
    /\ doc = [workflow |-> NoTarget, tasks |-> <<>>] /\ task = PyNone /\ target = NoTarget
    /\ input_file = <<>> /\ empty = <<>> /\ none = <<>> /\ cli = <<>> /\ inputs = <<>>
    /\ i = 1 /\ input_env = <<>> /\ json_keys = {} /\ check_required = TRUE
    /\ fs = <<>> /\ todo = <<>> /\ ret = ""
    /\ IdleValue
    /\ IdleRun
    /\ IdleRead

NextOutline == OutlineEnter \/ OutlineDescend \/ OutlineReturn

SpecOutline == InitOutline /\ [][NextOutline]_vars

\* the findings of the node printed so far, and the places in out of its lines
LintPrinted(nm) ==
    LET Mine(l) == l.line = "lint" /\ l.node = nm
    IN  SelectSeq(out, Mine)
PlacesOf(nm) == {k \in DOMAIN out : out[k].node = nm}
LintPlacesOf(nm) == {k \in PlacesOf(nm) : out[k].line = "lint"}
ChildNames(obj) == {Children(obj)[k].name : k \in DOMAIN Children(obj)}
OutlineReturned == pc = "outline_returned"

\* C25: in one traversal the findings of every visited node that pass the
\* filter are printed exactly once, in ascending order of position, and
\* before any line of any child of the node; this holds for nodes with
\* several children, one child and none, whose findings the closing descend
\* prints.
C25_LintOnceBeforeChildren ==
    \A n \in Range(Visited(uri)) :
        LET mine == LintPrinted(n.name)
            all == LintLines(n, suppress, show_all)
        IN  /\ mine = <<>> \/ mine = all
            /\ \A j, k \in DOMAIN mine : j < k => mine[j].f.pos <= mine[k].f.pos
            /\ \A c \in ChildNames(n) :
                  PlacesOf(c) # {} =>
                      /\ mine = all
                      /\ \A k \in LintPlacesOf(n.name) : \A m \in PlacesOf(c) : k < m
            /\ OutlineReturned => mine = all

\* the workflow (two children) and the call in the scatter (no child) each
\* have a finding printed, the workflow's before the heading of its first child
C25_Witness ==
    /\ OutlineReturned
    /\ Len(LintPrinted("w")) = 1 /\ Len(LintPrinted("d")) = 1
    /\ \E k \in LintPlacesOf("w") : \A m \in PlacesOf("c") : k < m


(***************************************************************************)
(* make_read_source: the reader handed to load.  A request is the uri      *)
(* ("http" for an http(s) URL, "rel" or "abs" for a local path), the kind  *)
(* of the importer ("none" for the main document), and what                *)
(* read_source_default finds: the directory of ans.abspath and the         *)
(* directory the file is in once symbolic links are resolved (NoSource     *)
(* when there is no such file).  Directories: /m holds the main document,  *)
(* /m/sub lies beneath it, /p and /o lie elsewhere.                        *)
(***************************************************************************)
MaxReads == 3      \* sources read through one reader

Dirs == {"/m", "/m/sub", "/p", "/o"}
Parent(d) == IF d = "/m/sub" THEN "/m" ELSE "/"

\* path_really_within: after resolving symlinks, lhs is rhs or nested within it
RECURSIVE PathReallyWithin(_, _)
PathReallyWithin(lhs, rhs) ==
    lhs = rhs \/ (lhs # "/" /\ PathReallyWithin(Parent(lhs), rhs))

Source(dir, real) == [dir |-> dir, real |-> real]
NoSource == Source("", "")
Request(u, importer, src) == [uri |-> u, importer |-> importer, src |-> src]
Ended(how, top) == [how |-> how, top_dir |-> top]

\* mutant of ReadSource: top_dir follows the directory of every source read
ReadSourceLastDir(flag, top, search, req) ==
    IF req.uri = "http" THEN Ended("http", top)
    ELSE IF req.importer = "http"
    THEN IF req.uri = "abs" THEN Ended("AssertionError", top) ELSE Ended("http", top)
    ELSE IF req.src = NoSource THEN Ended("FileNotFoundError", top)
    ELSE IF flag
    THEN LET top1 == req.src.dir
         IN  IF \E p \in Range(<<top1>> \o search) : PathReallyWithin(req.src.real, p)
             THEN Ended("local", top1)
             ELSE Ended("PermissionError", top1)
    ELSE Ended("local", top)

\* read_source: how the call ends, and top_dir after it
ReadSource(flag, top, search, req) ==
    IF req.uri = "http" THEN Ended("http", top)
    ELSE IF req.importer = "http"
    THEN IF req.uri = "abs" THEN Ended("AssertionError", top) ELSE Ended("http", top)
    ELSE IF req.src = NoSource THEN Ended("FileNotFoundError", top)
    ELSE IF flag
    THEN LET top1 == IF ~Truthy(top) THEN req.src.dir ELSE top
         IN  IF \E p \in Range(<<top1>> \o search) : PathReallyWithin(req.src.real, p)
             THEN Ended("local", top1)
             ELSE Ended("PermissionError", top1)
    ELSE Ended("local", top)

\* the files there are: one in each directory, and a symbolic link in /m to
\* a file in /o; a path naming no file
Sources ==
    {Source(d, d) : d \in Dirs} \cup {Source("/m", "/o"), NoSource}

\* the main document first, then what the documents read import
Requests(first) ==
    IF first
    THEN {Request("http", "none", NoSource)} \cup {Request("abs", "none", s) : s \in Sources}
    ELSE {Request("http", k, NoSource) : k \in {"local", "http"}}
         \cup {Request(u, "http", NoSource) : u \in {"rel", "abs"}}
         \cup {Request(u, "local", s) : u \in {"rel", "abs"}, s \in Sources}

ReadFrame ==
    UNCHANGED <<doc, task, target, exn, input_file, empty, none, cli, inputs, i, input_env,
                json_keys, check_required, fs, todo, ret, valueVars, checkVars, runVars,
                no_outside_imports, path>>

\* load calls the reader; an exception ends the loading
ReadSourceCall ==
    /\ pc = "read"
    /\ Len(reads) < MaxReads
    /\ \E req \in Requests(reads = <<>>) :
          LET r == ReadSource(no_outside_imports, top_dir, path, req)
          IN  /\ reads' = Append(reads, [req |-> req, how |-> r.how])
              /\ top_dir' = r.top_dir
              /\ pc' = IF r.how \in {"http", "local"} THEN "read" ELSE "read_raised"
    /\ ReadFrame

InitRead ==
    /\ pc = "read"
    /\ no_outside_imports \in BOOLEAN
    /\ top_dir = PyNone
    /\ path \in {<<>>, <<"/p">>}
    /\ reads = <<>>
    /\ exn = NoExn
    /\ doc = [workflow |-> NoTarget, tasks |-> <<>>] /\ task = PyNone /\ target = NoTarget
    /\ input_file = <<>> /\ empty = <<>> /\ none = <<>> /\ cli = <<>> /\ inputs = <<>>
    /\ i = 1 /\ input_env = <<>> /\ json_keys = {} /\ check_required = TRUE
    /\ fs = <<>> /\ todo = <<>> /\ ret = ""
    /\ IdleValue
    /\ IdleCheck
    /\ IdleRun

NextRead == ReadSourceCall

SpecRead == InitRead /\ [][NextRead]_vars

\* the calls in which read_source_default returned a local source
LocalReads == {k \in DOMAIN reads : reads[k].how \in {"local", "PermissionError"}}
FirstLocal == CHOOSE k \in LocalReads : \A j \in LocalReads : k <= j

\* C29: under no_outside_imports top_dir is the directory of the first local
\* source read and stays so; a local read returns only if the resolved
\* location of the source is within top_dir or a directory of the search
\* path, and raises PermissionError otherwise; without the flag nothing is
\* checked; an http(s) source is never refused.
C29_NoOutsideImports ==
    /\ no_outside_imports =>
          /\ top_dir = IF LocalReads = {} THEN PyNone ELSE reads[FirstLocal].req.src.dir
          /\ \A k \in LocalReads :
                reads[k].how = "local" <=>
                    \E p \in {reads[FirstLocal].req.src.dir} \cup Range(path) :
                        PathReallyWithin(reads[k].req.src.real, p)
    /\ ~no_outside_imports =>
          /\ top_dir = PyNone
          /\ \A k \in DOMAIN reads : reads[k].how # "PermissionError"
    /\ \A k \in DOMAIN reads :
          (reads[k].req.uri = "http" \/ (reads[k].req.importer = "http" /\ reads[k].req.uri = "rel"))
              => reads[k].how = "http"

\* the main document in /m, an import found in /p on the search path, then
\* an import from /o, refused with top_dir still /m
C29_Witness ==
    /\ no_outside_imports /\ pc = "read_raised" /\ Len(reads) = 3
    /\ reads[1].req.src = Source("/m", "/m") /\ reads[2].req.src = Source("/p", "/p")
    /\ reads[2].how = "local"
    /\ reads[3].req.src = Source("/o", "/o") /\ reads[3].how = "PermissionError"
    /\ top_dir = "/m"
=============================================================================
